---- MODULE Spec2Model ----
(***************************************************************************)
(* Verification model of gabeorlanski/springresearch.                      *)
(*                                                                         *)
(*   src/src/data/parse_so/dump_parsing.py   the Stack Overflow dump       *)
(*       parser: parse_line, initial_parse_dump, save_post_using_tag,      *)
(*       second_parse_dump, align_tag_file, parse_so_dump, FilterWorker    *)
(*   src/src/config/experiments.py           the experiment card composer  *)
(*       and save_experiment_cards                                         *)
(*   src/src/tutorials/html_parsers.py       TutorialHTMLParser            *)
(*   src/scripts/parse_tutorials.py          parse_tutorials               *)
(*   src/src/evaluation/evaluation.py        generate_code_predictions     *)
(*   src/src/data/stackoverflow.py           StackOverflowProcessor        *)
(*                                                                         *)
(* Specifications                                                          *)
(*   SpecSecond   second_parse_dump followed by the align pool of          *)
(*                parse_so_dump, from the files the initial pass leaves    *)
(*   SpecAlign    the align pool of parse_so_dump on arbitrary shards      *)
(*   SpecInitial  initial_parse_dump on a dump of well-formed and          *)
(*                malformed lines                                          *)
(*   SpecCards    load_composed_experiments_from_file driving              *)
(*                get_experiment_card_cfg_from_dict over a card file       *)
(*   SpecTutorials parse_tutorials over the files of a domain, every file  *)
(*                parsed by TutorialHTMLParser.__call__                    *)
(*   SpecEval     generate_code_predictions                                *)
(*   SpecMerge    one call of merge                                        *)
(*   SpecProcessor one call of a StackOverflowProcessor                    *)
(*   SpecSave     save_experiment_cards on a list of ComposedExperiments   *)
(*   SpecCombos   one call of get_all_ablation_combinations on dict        *)
(*                objects, then a write to one combination returned        *)
(*   SpecWorker   FilterWorker.run on a task queue                         *)
(***************************************************************************)
EXTENDS Integers, Sequences, FiniteSets, TLC

VARIABLES
    \* ---- second_parse_dump ------------------------------------------
    questions_file,         \* lines of questions.jsonl (initial pass output)
    answers_file,           \* lines of answers.jsonl   (initial pass output)
    question_overview_data, \* id -> [tags, tag_to_use]
    tag_counts,             \* [isStr, c]: the Counter, or the Tags.xml dict
    tag_file_descriptors,   \* the tags tracked by the handle map
    open_files,             \* the shard files with an open OS handle
    files,                  \* tag -> lines of questions/<tag>.jsonl
    tag_files,              \* keys of posts_per_tag in insertion order
    posts_per_tag,          \* Counter of the questions binned to each tag
    pc,                     \* position in parse_so_dump
    idx,                    \* lines consumed of the file being read
    parsed,                 \* the post inside save_post_using_tag
    tag_to_use,             \* the tag save_post_using_tag chose for it
    \* ---- the align pool of parse_so_dump ----------------------------
    shards_in,              \* the shard files as they were before aligning
    next_task,              \* tasks of pool.imap handed out so far
    workers,                \* per pool worker: its align_tag_file call
    results,                \* task number -> (tag, orphans) returned
    collected,              \* results consumed by the for loop of line 406
    orphans_by_tag,         \* tag -> orphans, as recorded in dump_stats
    \* ---- initial_parse_dump -----------------------------------------
    dump,                   \* the lines of the dump file
    line_number,            \* lines of the dump read so far
    failures_counts,        \* Counter of the results that are not PASS
    post_type_counter,      \* Counter of the PASS posts of each type
    post_type_to_file,      \* post type -> lines of <type>.jsonl
    \* ---- load_composed_experiments_from_file ------------------------
    card_file,              \* the 'experiments' of the card file, in order
    global_defaults,        \* global_defaults['overrides'] of the generator
    exp_i,                  \* experiments of the file fully composed
    experiment_overrides,   \* the overrides of the experiment being composed
    ablations,              \* its (ablation_name, ablation_overrides) pairs
    experiment_steps,       \* its step dicts
    abl_i,                  \* the ablation being composed (1 is the first)
    step_i,                 \* steps of that ablation composed so far
    previous_step,          \* previous_step of the ablation loop
    composed,               \* the ComposedExperiments being filled
    composed_experiments,   \* the ComposedExperiments yielded so far
    card,                   \* the ExperimentCard built last
    error,                  \* the message of the ValueError raised, if any
    \* ---- parse_tutorials and TutorialHTMLParser ----------------------
    tutorial_files,         \* files.items(): [page, out_name] of one domain
    file_i,                 \* files of the loop of parse_tutorials consumed
    domain_out,             \* out_name -> the JSON written to domain_out
    parsed_sections,        \* what the last call of the parser returned
    logged,                 \* the files logged as failed to parse
    \* ---- generate_code_predictions -----------------------------------
    dataset,                \* the samples [idx, target] to generate for
    batch_size,
    seq_per_sample,
    remove_input_ids_from_output,
    generate_steps_per_sample,
    sample_i,               \* samples of the loop of line 107 consumed
    gen_i,                  \* i of the loop of line 111
    generated_for_current_sample,
    predictions,
    labels,
    indices,
    pipe_calls,             \* the idx of the sample of every call of pipe
    eval_error,             \* the exception generate_code_predictions raised
    \* ---- merge ---------------------------------------------------------
    merge_a,                \* the dict a of a call of merge, before the call
    merge_b,                \* the dict b, before the call
    merge_out,              \* the dict merge returned
    merge_b_after,          \* the dict b, after the call
    \* ---- StackOverflowProcessor ---------------------------------------
    answer_sorting,
    repeat_prompt_each_answer,
    answers_per_sample,
    allow_no_answer,
    repeat_body_for_each_answer,
    good_answer_cutoff,
    question,               \* the sample __call__ is given
    answer_list,            \* answers of __call__ after line 224
    answers_processed,
    returned,               \* the list of dicts __call__ returned
    \* ---- save_experiment_cards ----------------------------------------
    save_experiments,       \* the ComposedExperiments to save, in order
    starting_commands,      \* the text of the starting commands, or None
    save_i,                 \* i of the loop of line 419
    save_log,               \* the writes to experiments.sh and the config
                            \* files saved, in the order they were made
    \* ---- get_all_ablation_combinations --------------------------------
    ablation_list,          \* the argument, as it was when the call was made
    combo_heap,             \* the dict objects of the argument and the result
    combo_out,              \* the list returned, as it was when returned
    changed,                \* the combination a caller changed, 0 for none
    \* ---- FilterWorker --------------------------------------------------
    task_queue,             \* the tasks not taken yet
    tasks_taken,            \* the tasks get() returned, in order
    result_queue,           \* what was put on the result queue
    log_queue,              \* what was put on the log queue
    task_done               \* the calls of tasks.task_done() made

secondVars == <<questions_file, answers_file, question_overview_data, tag_counts,
                tag_file_descriptors, open_files, tag_files, posts_per_tag,
                idx, parsed, tag_to_use>>
alignVars == <<shards_in, next_task, workers, results, collected, orphans_by_tag>>
\* the variables of the experiment card composer
cardVars == <<card_file, global_defaults, exp_i, experiment_overrides, ablations,
              experiment_steps, abl_i, step_i, previous_step, composed,
              composed_experiments, card, error>>
\* the variables of initial_parse_dump alone
initialVars == <<dump, line_number, failures_counts, post_type_counter, post_type_to_file>>
\* the variables of parse_tutorials
tutorialVars == <<tutorial_files, file_i, domain_out, parsed_sections, logged>>
\* the variables of the other programs of the repository
\* the variables of generate_code_predictions
evalVars == <<dataset, batch_size, seq_per_sample, remove_input_ids_from_output,
              generate_steps_per_sample, sample_i, gen_i, generated_for_current_sample,
              predictions, labels, indices, pipe_calls, eval_error>>
\* the variables of a call of merge
mergeVars == <<merge_a, merge_b, merge_out, merge_b_after>>
\* the variables of a StackOverflowProcessor and of a call of it
processorVars == <<answer_sorting, repeat_prompt_each_answer, answers_per_sample,
                   allow_no_answer, repeat_body_for_each_answer, good_answer_cutoff,
                   question, answer_list, answers_processed, returned>>
\* the variables of save_experiment_cards
saveVars == <<save_experiments, starting_commands, save_i, save_log>>
\* the variables of a call of get_all_ablation_combinations
comboVars == <<ablation_list, combo_heap, combo_out, changed>>
\* the variables of a FilterWorker and its queues
workerVars == <<task_queue, tasks_taken, result_queue, log_queue, task_done>>
laterVars == <<saveVars, comboVars, workerVars>>
restVars == <<tutorialVars, evalVars, mergeVars, processorVars, laterVars>>
\* what initial_parse_dump leaves alone
outsideInitial == <<questions_file, answers_file, tag_file_descriptors, open_files,
                    files, tag_files, posts_per_tag, idx, parsed, tag_to_use,
                    shards_in, next_task, workers, results, collected, orphans_by_tag,
                    cardVars, restVars>>
\* what second_parse_dump and the align pool leave alone
outsideDump == <<initialVars, cardVars, restVars>>
\* what the experiment card composer leaves alone
outsideCards == <<secondVars, alignVars, files, initialVars, restVars>>
vars == <<secondVars, alignVars, files, pc, initialVars, cardVars, restVars>>

(***************************************************************************)
(* Bounds of the model.                                                    *)
(***************************************************************************)
MaxQuestions == 2
MaxAnswers == 2
\* max_files_open of second_parse_dump (1000, 16 in debug mode), scaled down
\* so that the cap is reached with the few tags of the model.
MaxFilesOpen == 2
\* num_workers of parse_so_dump
NumWorkers == 2
\* lines of one shard in SpecAlign
MaxShardLen == 3
\* lines of the dump in SpecInitial
MaxLines == 3
\* experiments of a card file whose names vary
MaxExperiments == 2
\* child tags of a first level section of a tutorial page, its header apart
MaxChildren == 3
\* child tags of a subsection
MaxSubChildren == 2
\* samples of the dataset of generate_code_predictions
MaxSamples == 2
\* the largest batch_size and the largest seq_per_sample
MaxBatchSize == 3
MaxSeqPerSample == 4
\* the leaf values of the dicts merge is called on are 1..MaxLeaf
MaxLeaf == 2
\* answers of the question a StackOverflowProcessor is called on
MaxPostAnswers == 3

None == "None"
NO_TAG == "NO_TAG"
Tags == {"t1", "t2"}
FileTags == Tags \cup {NO_TAG}
\* the tag lists a question of the model can carry
TagLists == {<<>>, <<"t1">>, <<"t2">>, <<"t1", "t2">>}
\* the Count attributes a row of Tags.xml can carry: "9" and "10"
CountStrs == {<<9>>, <<1, 0>>}

Range(s) == {s[i] : i \in DOMAIN s}
\* a dict, and d[k] = v on it
EmptyMap == [x \in {} |-> 0]
Put(m, k, v) == [x \in DOMAIN m \cup {k} |-> IF x = k THEN v ELSE m[x]]

(***************************************************************************)
(* A line of the dump is the text of one <row .../> element.  The model    *)
(* keeps of it whether lxml can parse it and the attributes parse_line     *)
(* reads; Score, CreationDate, CommentCount, ViewCount, AnswerCount and    *)
(* AcceptedAnswerId are copied through unread and are left out.            *)
(***************************************************************************)
Row(xml, type, body, title, tags, parent) ==
    [xml |-> xml, PostTypeId |-> type, Body |-> body, Title |-> title,
     Tags |-> tags, ParentId |-> parent]

\* int(post_dict['PostTypeId']): the digits give a number, anything else
\* raises ValueError
IsIntStr(s) == s \in {"1", "2", "3", "4", "5"}
IntOf(s) == CASE s = "1" -> 1 [] s = "2" -> 2 [] s = "3" -> 3 [] s = "4" -> 4 [] s = "5" -> 5

\* lines 67-71: the result before anything is known of the post; a key the
\* dict does not have reads as None (0 for the numbers, no tags)
BlankResult(line_num) ==
    [line |-> line_num, body |-> None, result |-> "PASS", type |-> 0, id |-> 0,
     tags |-> <<>>, parent_id |-> None]
NoLine == BlankResult(0)

\* lines 81-133 of parse_line: the attributes of a row that parsed
ParseRow(line_num, row, id) ==
    LET result == BlankResult(line_num) IN
    IF ~ IsIntStr(row.PostTypeId) THEN [result EXCEPT !.result = "PARSE_FAIL"]
    ELSE LET post_type == IntOf(row.PostTypeId) IN
         IF post_type \notin {1, 2, 4, 5} THEN [result EXCEPT !.result = "NOT_VALID_TYPE"]
         ELSE IF row.Body = "" THEN [result EXCEPT !.result = "NO_BODY"]
         ELSE LET filled == [result EXCEPT !.body = row.Body, !.type = post_type, !.id = id] IN
              IF post_type = 1
              THEN IF row.Title = "" THEN [filled EXCEPT !.result = "NO_TITLE"]
                   ELSE [filled EXCEPT !.tags = row.Tags]
              ELSE [filled EXCEPT !.parent_id = row.ParentId]

\* parse_line (lines 66-79): a line lxml cannot parse is a PARSE_FAIL;
\* id is the Id attribute of the row
ParseLineXmlFailAsNotValid(line_num, row, id) ==
    IF ~ row.xml THEN [BlankResult(line_num) EXCEPT !.result = "NOT_VALID_TYPE"]
    ELSE ParseRow(line_num, row, id)
ParseLine(line_num, row, id) ==
    IF ~ row.xml THEN [BlankResult(line_num) EXCEPT !.result = "PARSE_FAIL"]
    ELSE ParseRow(line_num, row, id)

(***************************************************************************)
(* Comparison of the values of tag_counts, as max(..., key=...) compares   *)
(* them: the Counter of the initial pass holds ints; the dict read from    *)
(* Tags.xml holds the Count attribute, a str, compared by code point.      *)
(***************************************************************************)
RECURSIVE StrLess(_, _)
StrLess(a, b) ==
    IF a = <<>> THEN b # <<>>
    ELSE IF b = <<>> THEN FALSE
    ELSE IF Head(a) # Head(b) THEN Head(a) < Head(b)
    ELSE StrLess(Tail(a), Tail(b))

RECURSIVE DigitsToInt(_)
DigitsToInt(s) ==
    IF s = <<>> THEN 0 ELSE 10 * DigitsToInt(SubSeq(s, 1, Len(s) - 1)) + s[Len(s)]

\* tag_counts[t]: a Counter gives 0 for a missing key
CountOf(tc, t) == IF t \in DOMAIN tc.c THEN tc.c[t] ELSE 0
KeyLess(tc, a, b) ==
    IF tc.isStr THEN StrLess(CountOf(tc, a), CountOf(tc, b))
    ELSE CountOf(tc, a) < CountOf(tc, b)
\* the frequency a count stands for
NumericCount(tc, t) == IF tc.isStr THEN DigitsToInt(CountOf(tc, t)) ELSE CountOf(tc, t)

\* max(tags, key=lambda t: tag_counts[t]): the first element no later one beats
RECURSIVE MaxByCount(_, _, _)
MaxByCount(tc, tags, best) ==
    IF tags = <<>> THEN best
    ELSE MaxByCount(tc, Tail(tags),
                    IF KeyLess(tc, best, Head(tags)) THEN Head(tags) ELSE best)

\* lines 155-158 of save_post_using_tag
ChooseTag(tc, tags) ==
    IF tags = <<>> THEN NO_TAG ELSE MaxByCount(tc, Tail(tags), Head(tags))

\* line 166: the test that closes every handle
CapReachedGT(n) == n > MaxFilesOpen
CapReached(n) == n >= MaxFilesOpen

\* lines 162-163: open(<tag>.jsonl) with mode 'w' leaves an empty file
Opened(old) == <<>>

(***************************************************************************)
(* The initial pass leaves questions.jsonl and answers.jsonl, the          *)
(* overview of the questions and the Counter of their tags.                *)
(***************************************************************************)
QuestionLine(i, tags) == ParseLine(i - 1, Row(TRUE, "1", "b", "T", tags, None), i)
\* an answer line carries no tags; parent 0 stands for a parent that is no
\* PASS question of the dump
AnswerLine(i, p) == ParseLine(i - 1, Row(TRUE, "2", "b", "", <<>>, p), i)

QuestionFiles ==
    UNION {{[i \in 1..n |-> QuestionLine(i, f[i])] : f \in [1..n -> TagLists]}
           : n \in 0..MaxQuestions}
AnswerFiles(n) ==
    UNION {{[i \in 1..m |-> AnswerLine(MaxQuestions + i, f[i])] : f \in [1..m -> 0..n]}
           : m \in 0..MaxAnswers}

\* lines 209-210 of initial_parse_dump
CounterOfTags(qs) ==
    [t \in {u \in Tags : \E i \in DOMAIN qs : u \in Range(qs[i].tags)} |->
        Cardinality({i \in DOMAIN qs : t \in Range(qs[i].tags)})]
\* lines 201-208 of initial_parse_dump
OverviewOf(qs) ==
    [i \in {qs[k].id : k \in DOMAIN qs} |->
        [tags |-> qs[CHOOSE k \in DOMAIN qs : qs[k].id = i].tags, tag_to_use |-> None]]

(***************************************************************************)
(* initial_parse_dump (lines 176-234), one line of the dump per step.      *)
(***************************************************************************)
\* the rows a dump of the model is made of
DumpRows ==
    {Row(FALSE, "1", "b", "T", <<>>, None),        \* not well-formed XML
     Row(TRUE, "x", "b", "T", <<>>, None),         \* PostTypeId is no number
     Row(TRUE, "3", "b", "", <<>>, None),          \* neither question nor answer
     Row(TRUE, "4", "b", "", <<>>, None),
     Row(TRUE, "1", "", "T", <<"t1">>, None),      \* a deleted question
     Row(TRUE, "1", "b", "", <<"t1">>, None),      \* a question without title
     Row(TRUE, "1", "b", "T", <<"t1", "t2">>, None),
     Row(TRUE, "1", "b", "T", <<>>, None),
     Row(TRUE, "2", "b", "", <<>>, 1)}
Dumps == UNION {[1..n -> DumpRows] : n \in 0..MaxLines}

\* POST_TYPE_TO_STR of src.data.parse_so.util: the post types that have a file
PostTypeToStr ==
    [t \in {1, 2, 4, 5} |->
        CASE t = 1 -> "questions" [] t = 2 -> "answers"
          [] t = 4 -> "wiki_excerpts" [] t = 5 -> "wiki"]
FailResults == {"PARSE_FAIL", "NOT_VALID_TYPE", "NO_BODY", "NO_TITLE"}

\* the row with Id i is line i of the dump
ParsedAt(i) == ParseLine(i - 1, dump[i], i)

\* lines 209-210: tag_counts[t] += 1 for every tag of the question
RECURSIVE CountTags(_, _)
CountTags(c, tags) ==
    IF tags = <<>> THEN c
    ELSE CountTags(Put(c, Head(tags), (IF Head(tags) \in DOMAIN c THEN c[Head(tags)] ELSE 0) + 1),
                   Tail(tags))

\* lines 192-210: the next line of the dump
InitialNext ==
    /\ pc = "initial"
    /\ line_number < Len(dump)
    /\ line_number' = line_number + 1
    /\ LET p == ParsedAt(line_number + 1) IN
       IF p.result # "PASS"
       THEN /\ failures_counts' = [failures_counts EXCEPT ![p.result] = @ + 1]
            /\ UNCHANGED <<post_type_counter, post_type_to_file, question_overview_data,
                           tag_counts>>
       ELSE /\ post_type_counter' = [post_type_counter EXCEPT ![PostTypeToStr[p.type]] = @ + 1]
            /\ post_type_to_file' = [post_type_to_file EXCEPT ![p.type] = Append(@, p)]
            /\ IF p.type = 1
               THEN /\ question_overview_data' =
                          Put(question_overview_data, p.id,
                              [tags |-> p.tags, tag_to_use |-> None])
                    /\ tag_counts' = [tag_counts EXCEPT !.c = CountTags(@, p.tags)]
               ELSE UNCHANGED <<question_overview_data, tag_counts>>
            /\ UNCHANGED failures_counts
    /\ UNCHANGED <<dump, pc, outsideInitial>>

\* lines 212-234: the dump is exhausted, the files are closed
InitialEnd ==
    /\ pc = "initial"
    /\ line_number = Len(dump)
    /\ pc' = "initial_done"
    /\ UNCHANGED <<initialVars, question_overview_data, tag_counts, outsideInitial>>

(***************************************************************************)
(* save_post_using_tag, in two steps: the file is opened and the post      *)
(* written (lines 155-165), then the cap is tested (lines 166-173).        *)
(***************************************************************************)
SaveOpenWrite(p) ==
    LET t == ChooseTag(tag_counts, p.tags) IN
    /\ parsed' = p
    /\ tag_to_use' = t
    /\ IF t \notin tag_file_descriptors
       THEN /\ tag_file_descriptors' = tag_file_descriptors \cup {t}
            /\ open_files' = open_files \cup {t}
            /\ files' = [files EXCEPT ![t] = Append(Opened(@), p)]
       ELSE /\ UNCHANGED <<tag_file_descriptors, open_files>>
            /\ files' = [files EXCEPT ![t] = Append(@, p)]

SaveCap ==
    IF CapReached(Cardinality(tag_file_descriptors))
    THEN /\ open_files' = open_files \ tag_file_descriptors
         /\ tag_file_descriptors' = {}
    ELSE UNCHANGED <<tag_file_descriptors, open_files>>

(***************************************************************************)
(* second_parse_dump                                                       *)
(***************************************************************************)
\* lines 263-275: the next line of questions.jsonl
QuestionsNext ==
    /\ pc = "questions"
    /\ idx < Len(questions_file)
    /\ LET line == questions_file[idx + 1] IN
       IF line.result # "PASS" \/ line.type \notin {1, 2}
       THEN /\ idx' = idx + 1
            /\ UNCHANGED <<pc, parsed, tag_to_use, tag_file_descriptors, open_files, files>>
       ELSE /\ SaveOpenWrite(line)
            /\ pc' = "questions_cap"
            /\ UNCHANGED idx
    /\ UNCHANGED <<questions_file, answers_file, question_overview_data, tag_counts,
                   tag_files, posts_per_tag, alignVars, outsideDump>>

\* lines 166-173, then lines 277-280
QuestionsCap ==
    /\ pc = "questions_cap"
    /\ SaveCap
    /\ posts_per_tag' = [posts_per_tag EXCEPT ![tag_to_use] = @ + 1]
    /\ tag_files' = IF posts_per_tag[tag_to_use] = 0
                    THEN Append(tag_files, tag_to_use) ELSE tag_files
    /\ question_overview_data' =
           [question_overview_data EXCEPT ![parsed.id].tag_to_use = tag_to_use]
    /\ idx' = idx + 1
    /\ pc' = "questions"
    /\ UNCHANGED <<questions_file, answers_file, tag_counts, parsed, tag_to_use,
                   files, alignVars, outsideDump>>

\* line 292: questions.jsonl is exhausted
QuestionsEnd ==
    /\ pc = "questions"
    /\ idx = Len(questions_file)
    /\ pc' = "answers"
    /\ idx' = 0
    /\ UNCHANGED <<questions_file, answers_file, question_overview_data, tag_counts,
                   tag_file_descriptors, open_files, tag_files, posts_per_tag,
                   parsed, tag_to_use, files, alignVars, outsideDump>>

\* lines 295-309: the next line of answers.jsonl
AnswersNext ==
    /\ pc = "answers"
    /\ idx < Len(answers_file)
    /\ LET line == answers_file[idx + 1] IN
       IF line.parent_id \notin DOMAIN question_overview_data
       THEN \* KeyError: logged, the answer is skipped
            /\ idx' = idx + 1
            /\ UNCHANGED <<pc, parsed, tag_to_use, tag_file_descriptors, open_files, files>>
       ELSE /\ SaveOpenWrite([line EXCEPT !.tags = question_overview_data[line.parent_id].tags])
            /\ pc' = "answers_cap"
            /\ UNCHANGED idx
    /\ UNCHANGED <<questions_file, answers_file, question_overview_data, tag_counts,
                   tag_files, posts_per_tag, alignVars, outsideDump>>

\* lines 166-173, then lines 310-311
AnswersCap ==
    /\ pc = "answers_cap"
    /\ SaveCap
    /\ idx' = idx + 1
    /\ pc' = "answers"
    /\ UNCHANGED <<questions_file, answers_file, question_overview_data, tag_counts,
                   tag_files, posts_per_tag, parsed, tag_to_use, files, alignVars, outsideDump>>

\* lines 329-332, then lines 394-403 of parse_so_dump
AnswersEnd ==
    /\ pc = "answers"
    /\ idx = Len(answers_file)
    /\ open_files' = open_files \ tag_file_descriptors
    /\ tag_file_descriptors' = {}
    /\ shards_in' = files
    /\ pc' = "align"
    /\ UNCHANGED <<questions_file, answers_file, question_overview_data, tag_counts,
                   tag_files, posts_per_tag, idx, parsed, tag_to_use, files,
                   next_task, workers, results, collected, orphans_by_tag, outsideDump>>

(***************************************************************************)
(* align_tag_file                                                          *)
(***************************************************************************)
\* defaultdict(dict): reading a missing key inserts an empty dict
Touch(oc, k) == IF k \in DOMAIN oc THEN oc ELSE Put(oc, k, EmptyMap)

\* question_dict[id] = ...: a new key goes last, a known key keeps its place
SetQuestion(qd, line) ==
    IF \E i \in DOMAIN qd : qd[i].id = line.id
    THEN [i \in DOMAIN qd |-> IF qd[i].id = line.id THEN line ELSE qd[i]]
    ELSE Append(qd, line)

\* lines 339-346: the loop over the lines of the shard.  The 'answers' of a
\* question is the very dict orphaned_children[id], so question_dict keeps
\* the line and the answers are read from orphaned_children when written.
RECURSIVE ReadShard(_, _, _)
ReadShard(lines, qd, oc) ==
    IF lines = <<>> THEN [question_dict |-> qd, orphaned_children |-> oc]
    ELSE LET line == Head(lines) IN
         IF line.type = 1
         THEN ReadShard(Tail(lines), SetQuestion(qd, line), Touch(oc, line.id))
         ELSE ReadShard(Tail(lines), qd,
                        Put(Touch(oc, line.parent_id), line.parent_id,
                            Put(Touch(oc, line.parent_id)[line.parent_id], line.id, line)))

RECURSIVE SumLen(_, _)
SumLen(oc, keys) ==
    IF keys = {} THEN 0
    ELSE LET k == CHOOSE x \in keys : TRUE IN
         Cardinality(DOMAIN oc[k]) + SumLen(oc, keys \ {k})

\* lines 348-353: the answers whose parent is no question of the shard
CountOrphansAll(qd, oc) == SumLen(oc, DOMAIN oc)
CountOrphans(qd, oc) ==
    SumLen(oc, {k \in DOMAIN oc : ~ \E i \in DOMAIN qd : qd[i].id = k})

\* lines 355-357: one line per question, with its answers
WithAnswers(line, answers) ==
    [line |-> line.line, body |-> line.body, result |-> line.result,
     type |-> line.type, id |-> line.id, tags |-> line.tags,
     parent_id |-> line.parent_id, answers |-> answers]
Rewritten(qd, oc) == [i \in DOMAIN qd |-> WithAnswers(qd[i], oc[qd[i].id])]

\* align_tag_file as a function of the lines of its file
AlignTagFile(lines) ==
    LET r == ReadShard(lines, <<>>, EmptyMap) IN
    [out |-> Rewritten(r.question_dict, r.orphaned_children),
     orphans |-> CountOrphans(r.question_dict, r.orphaned_children)]

(***************************************************************************)
(* The pool of parse_so_dump (lines 405-409): pool.imap hands the tag      *)
(* files out in order, each worker runs align_tag_file on the file it got  *)
(* (reading it, then rewriting it), and the results come back in order.    *)
(***************************************************************************)
Idle == [state |-> "idle", task |-> 0, tag |-> None, out |-> <<>>, orphans |-> 0]

\* the file a worker rewrites: the one it was given
WriteTargetFirst(w) == tag_files[1]
WriteTarget(w) == workers[w].tag

\* lines 336-353 of align_tag_file, on the next file of the list
WorkerRead(w) ==
    /\ pc = "align"
    /\ workers[w].state = "idle"
    /\ next_task < Len(tag_files)
    /\ next_task' = next_task + 1
    /\ LET tag == tag_files[next_task + 1]
           r == AlignTagFile(files[tag])
       IN workers' = [workers EXCEPT ![w] =
              [state |-> "read", task |-> next_task + 1, tag |-> tag,
               out |-> r.out, orphans |-> r.orphans]]
    /\ UNCHANGED <<outsideDump, secondVars, files, pc, shards_in, results, collected, orphans_by_tag>>

\* lines 355-359 of align_tag_file
WorkerWrite(w) ==
    /\ pc = "align"
    /\ workers[w].state = "read"
    /\ files' = [files EXCEPT ![WriteTarget(w)] = workers[w].out]
    /\ results' = results \cup {[task |-> workers[w].task, tag |-> workers[w].tag,
                                  orphans |-> workers[w].orphans]}
    /\ workers' = [workers EXCEPT ![w] = Idle]
    /\ UNCHANGED <<outsideDump, secondVars, pc, shards_in, next_task, collected, orphans_by_tag>>

\* lines 406-409: the next result of imap, in task order
Collect ==
    /\ pc = "align"
    /\ \E r \in results :
          /\ r.task = collected + 1
          /\ orphans_by_tag' = Put(orphans_by_tag, r.tag, r.orphans)
    /\ collected' = collected + 1
    /\ UNCHANGED <<outsideDump, secondVars, files, pc, shards_in, next_task, workers, results>>

\* lines 411-420: every result is in, the statistics are saved
AlignDone ==
    /\ pc = "align"
    /\ collected = Len(tag_files)
    /\ pc' = "done"
    /\ UNCHANGED <<outsideDump, secondVars, alignVars, files>>

(***************************************************************************)
(* src/src/config/experiments.py                                           *)
(*                                                                         *)
(* A str is a sequence of tokens, "." being a token of its own, so that    *)
(* f"{group}.{name}" is a concatenation; a missing str is NoneStr.         *)
(* An override dict maps a key to a leaf [leaf |-> v] or to a dict of      *)
(* leaves [dict |-> d].                                                    *)
(***************************************************************************)
NoneStr == <<None>>
Dot == <<".">>
Leaf(v) == [leaf |-> v]
Dict(d) == [dict |-> d]
IsDict(c) == "dict" \in DOMAIN c
IsRef(c) == "ref" \in DOMAIN c

\* ExperimentCard (lines 26-42)
ExperimentCard(name, base, group, overrides, depends_on) ==
    [name |-> name, base |-> base, group |-> group, overrides |-> overrides,
     depends_on |-> depends_on]
NoCard == ExperimentCard(NoneStr, NoneStr, NoneStr, EmptyMap, NoneStr)

\* ExperimentCard.save_name (lines 44-46)
SaveName(c) == c.group \o Dot \o c.name

\* line 108 of ComposedExperiments.save: the file a card is saved to
SavePath(c) == SaveName(c) \o <<".yaml">>

\* dict.update(b) on a: the value of b replaces that of a, whatever it is
Update(a, b) == [k \in DOMAIN a \cup DOMAIN b |-> IF k \in DOMAIN b THEN b[k] ELSE a[k]]

(***************************************************************************)
(* The dict objects of one pass of the step loop.  An object is named by a *)
(* path; a cell of it is a leaf or a reference [ref |-> path] to another   *)
(* object, so that a[key] = b[key] shares the dict of b, as in Python.     *)
(***************************************************************************)
\* the objects of the dict value, the outer one at root
Alloc(h, root, value) ==
    LET inner == {k \in DOMAIN value : IsDict(value[k])} IN
    [id \in DOMAIN h \cup {root} \cup {Append(root, k) : k \in inner} |->
        IF id = root
        THEN [k \in DOMAIN value |->
                 IF IsDict(value[k]) THEN [ref |-> Append(root, k)] ELSE value[k]]
        ELSE IF \E k \in inner : id = Append(root, k)
        THEN value[id[Len(id)]].dict
        ELSE h[id]]

\* the dict value an object holds
Deref(h, id) ==
    [k \in DOMAIN h[id] |-> IF IsRef(h[id][k]) THEN Dict(h[h[id][k].ref]) ELSE h[id][k]]

\* merge(a, b) (lines 168-181): the keys of b still to visit
RECURSIVE MergeKeys(_, _, _, _)
MergeKeys(h, a, b, keys) ==
    IF keys = {} THEN h
    ELSE LET key == CHOOSE k \in keys : TRUE
             merged ==
                 IF key \in DOMAIN h[a]
                 THEN IF IsRef(h[a][key]) /\ IsRef(h[b][key])
                      THEN MergeKeys(h, h[a][key].ref, h[b][key].ref,
                                     DOMAIN h[h[b][key].ref])
                      ELSE IF h[a][key] = h[b][key] THEN h
                      ELSE [h EXCEPT ![a] = Put(@, key, h[b][key])]
                 ELSE [h EXCEPT ![a] = Put(@, key, h[b][key])]
         IN MergeKeys(merged, a, b, keys \ {key})
MergeShallow(h, a, b) == [h EXCEPT ![a] = Update(h[a], h[b])]
Merge(h, a, b) == MergeKeys(h, a, b, DOMAIN h[b])

\* lines 300-308: card_overrides is a deep copy of experiment_overrides, the
\* ablation's overrides are merged into it, then the step's
CardObj == <<"card_overrides">>
AblObj == <<"ablation_overrides">>
StepObj == <<"step_overrides">>
MergedObjects(exp_ov, abl_ov, step_ov) ==
    LET h0 == Alloc(Alloc(Alloc(EmptyMap, CardObj, exp_ov), AblObj, abl_ov), StepObj, step_ov)
    IN Merge(Merge(h0, CardObj, AblObj), CardObj, StepObj)

(***************************************************************************)
(* get_all_ablation_combinations (lines 143-165)                           *)
(***************************************************************************)
\* '.'.join(names) with one more name
JoinDot(prefix, name) == IF prefix = <<>> THEN name ELSE prefix \o Dot \o name

\* itertools.product in its order, the last ablation varying fastest; the
\* dict of a combination is updated with a deep copy of each chosen value
RECURSIVE Combos(_)
Combos(dims) ==
    IF dims = <<>> THEN <<[name |-> <<>>, overrides |-> EmptyMap]>>
    ELSE LET before == Combos(SubSeq(dims, 1, Len(dims) - 1))
             values == dims[Len(dims)].values
             n == Len(values)
         IN [i \in 1..(Len(before) * n) |->
               LET c == before[((i - 1) \div n) + 1]
                   v == values[((i - 1) % n) + 1]
               IN [name |-> JoinDot(c.name, v.name),
                   overrides |-> Update(c.overrides, v.overrides)]]

(***************************************************************************)
(* get_experiment_card_cfg_from_dict (lines 184-331), driven by the loop   *)
(* of load_composed_experiments_from_file (lines 362-369)                  *)
(***************************************************************************)
Experiment == card_file[exp_i + 1]
HasAblations == Experiment.ablations # <<>>
HasSteps == Experiment.steps # <<>>
NoStep == [save_name |-> NoneStr]

\* lines 290-298
CardName(e, has_ablations, has_steps, ablation_name, step_name) ==
    LET n0 == IF e.add_name THEN e.name ELSE <<>>
        n1 == IF has_ablations
              THEN n0 \o (IF e.add_name THEN Dot ELSE <<>>) \o ablation_name
              ELSE n0
    IN IF has_steps
       THEN n1 \o (IF e.add_name \/ has_ablations THEN Dot ELSE <<>>) \o step_name
       ELSE n1

\* lines 271-276
NewComposed(e, has_ablations, ablation_name) ==
    [name |-> IF has_ablations THEN e.name \o <<"_">> \o ablation_name ELSE e.name,
     step_cards |-> <<>>]

\* step_cards[key] = card: a new key goes last, a known key keeps its place
SetCard(step_cards, key, c) ==
    IF \E i \in DOMAIN step_cards : step_cards[i].key = key
    THEN [i \in DOMAIN step_cards |->
             IF step_cards[i].key = key THEN [key |-> key, card |-> c] ELSE step_cards[i]]
    ELSE Append(step_cards, [key |-> key, card |-> c])

\* line 270: previous_step at the start of an ablation
PreviousStepAtAblationStart(prev) == NoStep

Raise(msg) ==
    /\ pc' = "raised"
    /\ error' = msg
    /\ UNCHANGED <<exp_i, experiment_overrides, ablations, experiment_steps, abl_i,
                   step_i, previous_step, composed, composed_experiments, card>>

\* lines 201-267: the generator is started on the next experiment of the file
ExperimentStart ==
    /\ pc = "card_next"
    /\ exp_i < Len(card_file)
    /\ LET e == Experiment
           overrides == Update(global_defaults, e.overrides)
       IN IF e.steps = <<>> /\ e.group = NoneStr
          THEN Raise("does not have a group")
          ELSE IF e.steps = <<>> /\ e.base = NoneStr
          THEN Raise("does not have a base config")
          ELSE IF e.ablations = <<>> /\ e.steps = <<>>
          THEN \* lines 225-235: the card is yielded as it is
               LET single == ExperimentCard(e.name, e.base, e.group, overrides, NoneStr) IN
               /\ card' = single
               /\ composed_experiments' =
                      Append(composed_experiments,
                             [name |-> e.name,
                              step_cards |-> <<[key |-> <<"single">>, card |-> single]>>])
               /\ exp_i' = exp_i + 1
               /\ experiment_overrides' = overrides
               /\ UNCHANGED <<pc, error, ablations, experiment_steps, abl_i, step_i,
                              previous_step, composed>>
          ELSE /\ experiment_overrides' = overrides
               /\ ablations' = IF e.ablations = <<>>
                               THEN <<[name |-> <<"NONE">>, overrides |-> EmptyMap]>>
                               ELSE Combos(e.ablations)
               /\ experiment_steps' =
                      IF e.steps = <<>>
                      THEN <<[name |-> e.name, group |-> e.group, base |-> e.base,
                              overrides |-> EmptyMap]>>
                      ELSE e.steps
               /\ abl_i' = 1
               /\ step_i' = 0
               /\ previous_step' = PreviousStepAtAblationStart(previous_step)
               /\ composed' = NewComposed(e, HasAblations, ablations'[1].name)
               /\ pc' = "card_steps"
               /\ UNCHANGED <<error, exp_i, composed_experiments, card>>
    /\ UNCHANGED <<card_file, global_defaults, outsideCards>>

\* line 283: any of step_dict.get(k) is None for 'name', 'group', 'base'
LacksName(step_dict) == step_dict.name = NoneStr
LacksKeys(step_dict) == NoneStr \in {step_dict.name, step_dict.group, step_dict.base}

\* lines 277-330: the card of the next step of the ablation
StepCard ==
    /\ pc = "card_steps"
    /\ step_i < Len(experiment_steps)
    /\ LET e == Experiment
           step_dict == experiment_steps[step_i + 1]
           ablation == ablations[abl_i]
       IN IF LacksKeys(step_dict)
          THEN Raise("does not have correct keys")
          ELSE LET h == MergedObjects(experiment_overrides, ablation.overrides,
                                      step_dict.overrides)
                   new == ExperimentCard(
                              CardName(e, HasAblations, HasSteps, ablation.name,
                                       step_dict.name),
                              step_dict.base, step_dict.group, Deref(h, CardObj),
                              previous_step.save_name)
               IN /\ card' = new
                  /\ composed' = [composed EXCEPT
                                    !.step_cards = SetCard(@, step_dict.name, new)]
                  /\ previous_step' = [save_name |-> SaveName(new)]
                  /\ ablations' = [ablations EXCEPT ![abl_i].overrides = Deref(h, AblObj)]
                  /\ experiment_steps' =
                         [experiment_steps EXCEPT ![step_i + 1].overrides = Deref(h, StepObj)]
                  /\ step_i' = step_i + 1
                  /\ UNCHANGED <<pc, error, exp_i, experiment_overrides, abl_i,
                                 composed_experiments>>
    /\ UNCHANGED <<card_file, global_defaults, outsideCards>>

\* line 331, then lines 269-276 for the next ablation or the end of the
\* generator (lines 366-369)
AblationYield ==
    /\ pc = "card_steps"
    /\ step_i = Len(experiment_steps)
    /\ composed_experiments' = Append(composed_experiments, composed)
    /\ IF abl_i < Len(ablations)
       THEN /\ abl_i' = abl_i + 1
            /\ step_i' = 0
            /\ previous_step' = PreviousStepAtAblationStart(previous_step)
            /\ composed' = NewComposed(Experiment, HasAblations, ablations[abl_i + 1].name)
            /\ UNCHANGED <<pc, exp_i>>
       ELSE /\ exp_i' = exp_i + 1
            /\ pc' = "card_next"
            /\ UNCHANGED <<abl_i, step_i, previous_step, composed>>
    /\ UNCHANGED <<card_file, global_defaults, experiment_overrides, ablations,
                   experiment_steps, card, error, outsideCards>>

\* the cards of the composed experiments, in the order of lines 373-377
RECURSIVE AllCards(_)
AllCards(ces) ==
    IF ces = <<>> THEN <<>>
    ELSE [i \in DOMAIN Head(ces).step_cards |-> Head(ces).step_cards[i].card]
         \o AllCards(Tail(ces))

\* lines 373-377: the save_names that more than one card has
DuplicatedWithinOne(ces) ==
    {n \in UNION {{SaveName(ces[k].step_cards[i].card) : i \in DOMAIN ces[k].step_cards}
                  : k \in DOMAIN ces} :
        \E k \in DOMAIN ces :
            Cardinality({i \in DOMAIN ces[k].step_cards :
                           SaveName(ces[k].step_cards[i].card) = n}) > 1}
DuplicatedNames(ces) ==
    LET cards == AllCards(ces) IN
    {n \in {SaveName(cards[i]) : i \in DOMAIN cards} :
        Cardinality({i \in DOMAIN cards : SaveName(cards[i]) = n}) > 1}

\* lines 370-388: every experiment is composed, duplicates are looked for
DuplicateCheck ==
    /\ pc = "card_next"
    /\ exp_i = Len(card_file)
    /\ IF DuplicatedNames(composed_experiments) # {}
       THEN /\ pc' = "raised"
            /\ error' = "Duplicate Experiment names."
       ELSE /\ pc' = "returned"
            /\ UNCHANGED error
    /\ UNCHANGED <<card_file, global_defaults, exp_i, experiment_overrides, ablations,
                   experiment_steps, abl_i, step_i, previous_step, composed,
                   composed_experiments, card, outsideCards>>

(***************************************************************************)
(* src/src/tutorials/html_parsers.py                                       *)
(*                                                                         *)
(* A tag is [kind, children]: "h" a header tag, "figure" a tag of          *)
(* IGNORED_TAGS, "section" a tag of TagType.SECTION with its children,     *)
(* "empty" a tag of another type whose text is blank (an img, a blank p),  *)
(* "p", "code", "list", "ignored", "unknown" a tag with text of that       *)
(* TagType.  NavigableString children are left out.                        *)
(***************************************************************************)
Tag(kind) == [kind |-> kind, children |-> <<>>]
Section(children) == [kind |-> "section", children |-> children]
Raised == [out |-> <<>>, raised |-> TRUE]

\* lines 180-188: the 'tag' of the dict of a tag type
OutTag(kind) == IF kind = "code" THEN "code" ELSE "p"

\* what a generator yields after another, the exception of either ending both
YieldThen(first, second) ==
    IF first.raised \/ second.raised THEN Raised
    ELSE [out |-> first.out \o second.out, raised |-> FALSE]

\* line 162: id_counter after the subsection has yielded its dicts
AfterSubsection(id_counter, sub) ==
    IF sub.out = <<>> THEN id_counter ELSE sub.out[Len(sub.out)].id

\* line 165: id_counter after a tag with blank text
AfterBlank(id_counter) == id_counter - 1

\* parse_section (lines 129-197): the loop of lines 141-197 from child i on
RECURSIVE ParseChildren(_, _, _, _, _, _)
RECURSIVE ParseSection(_, _, _)
ParseChildren(children, i, parent_id, section_id, titled, id_counter) ==
    IF i > Len(children) THEN [out |-> <<>>, raised |-> FALSE]
    ELSE LET tag == children[i]
             Rest(counter, t) ==
                 ParseChildren(children, i + 1, parent_id, section_id, t, counter)
         IN CASE tag.kind = "h" ->
                     IF titled THEN Raised ELSE Rest(id_counter, TRUE)
              [] tag.kind = "figure" -> Rest(id_counter, titled)
              [] tag.kind = "section" ->
                     LET sub == ParseSection(tag, section_id, id_counter) IN
                     IF sub.raised THEN Raised
                     ELSE YieldThen(sub, Rest(AfterSubsection(id_counter, sub), titled))
              [] tag.kind = "empty" -> Rest(AfterBlank(id_counter), titled)
              [] OTHER ->
                     IF ~titled THEN Raised
                     ELSE IF tag.kind \in {"p", "code", "list"}
                     THEN YieldThen(
                              [out |-> <<[id |-> id_counter + 1, parent_id |-> parent_id,
                                          section_id |-> section_id, child_idx |-> i - 1,
                                          tag |-> OutTag(tag.kind)]>>,
                               raised |-> FALSE],
                              Rest(id_counter + 1, titled))
                     ELSE IF tag.kind = "ignored" THEN Rest(id_counter + 1 - 1, titled)
                     ELSE Raised
ParseSection(section, parent_id, id_counter) ==
    ParseChildren(section.children, 1, parent_id, id_counter + 1, FALSE, id_counter + 1)

\* TutorialHTMLParser.__call__ (lines 199-214) from section k on
RECURSIVE CallFrom(_, _, _)
CallFrom(sections, k, idx_counter) ==
    IF k > Len(sections) THEN [out |-> <<>>, raised |-> FALSE]
    ELSE LET sub == ParseSection(sections[k], 0, idx_counter)
             after == CallFrom(sections, k + 1, AfterSubsection(idx_counter, sub))
         IN IF sub.raised \/ after.raised THEN Raised
            ELSE [out |-> <<sub.out>> \o after.out, raised |-> FALSE]
Call(page) == CallFrom(page, 1, 0)

(***************************************************************************)
(* src/scripts/parse_tutorials.py: the loop over the files of one domain   *)
(* (lines 108-116), domain_out having been made anew (lines 101-106)       *)
(***************************************************************************)
\* what parse_tutorials leaves alone
outsideTutorial == <<secondVars, alignVars, files, initialVars, cardVars, evalVars,
                     mergeVars, processorVars,
                     laterVars>>

\* lines 111-113: the exception of the parser is raised again
ExceptSwallows(raised) == FALSE
ExceptReraises(raised) == raised

\* lines 108-116 for the next file
ParseFile ==
    /\ pc = "parse_files"
    /\ file_i < Len(tutorial_files)
    /\ LET file == tutorial_files[file_i + 1]
           result == Call(file.page)
       IN IF result.raised
          THEN /\ logged' = logged \cup {file_i + 1}
               /\ IF ExceptReraises(result.raised)
                  THEN /\ pc' = "parse_raised"
                       /\ UNCHANGED <<file_i, domain_out, parsed_sections>>
                  ELSE /\ file_i' = file_i + 1
                       /\ domain_out' = Put(domain_out, file.out_name, parsed_sections)
                       /\ UNCHANGED <<pc, parsed_sections>>
          ELSE /\ parsed_sections' = result.out
               /\ domain_out' = Put(domain_out, file.out_name, result.out)
               /\ file_i' = file_i + 1
               /\ UNCHANGED <<pc, logged>>
    /\ UNCHANGED <<tutorial_files, outsideTutorial>>

\* the loop of lines 108-116 is over
ParseEnd ==
    /\ pc = "parse_files"
    /\ file_i = Len(tutorial_files)
    /\ pc' = "parse_done"
    /\ UNCHANGED <<tutorialVars, outsideTutorial>>

(***************************************************************************)
(* merge (lines 168-181 of src/src/config/experiments.py) called on two    *)
(* dicts that share no object                                              *)
(***************************************************************************)
\* what a call of merge leaves alone
outsideMerge == <<secondVars, alignVars, files, initialVars, cardVars, tutorialVars,
                  evalVars, processorVars,
                     laterVars>>
AObj == <<"a">>
BObj == <<"b">>

\* merge(a, b) and what a and b hold when it has returned a
MergeCall ==
    /\ pc = "merge_call"
    /\ LET h0 == Alloc(Alloc(EmptyMap, AObj, merge_a), BObj, merge_b)
           h1 == Merge(h0, AObj, BObj)
       IN /\ merge_out' = Deref(h1, AObj)
          /\ merge_b_after' = Deref(h1, BObj)
    /\ pc' = "merge_returned"
    /\ UNCHANGED <<merge_a, merge_b, outsideMerge>>

(***************************************************************************)
(* src/src/data/stackoverflow.py: StackOverflowProcessor                   *)
(*                                                                         *)
(* A str is a sequence of tokens.  The body of a post is the list of tags  *)
(* clean_html_body leaves, each tag given by its text; a cutoff is <<n>>,  *)
(* or <<>> when it is None.  include_quality and wrap_answer_character     *)
(* have their defaults.                                                    *)
(***************************************************************************)
\* what a call of a StackOverflowProcessor leaves alone
outsideProcessor == <<secondVars, alignVars, files, initialVars, cardVars, tutorialVars,
                      evalVars, mergeVars,
                     laterVars>>

\* the defaults of __init__ (lines 32, 34, 36)
top_answer_cutoff == 12
bad_answer_cutoff == -1
no_answer_str == <<"N", "o", " ", "a", "n", "s", "w", "e", "r">>
Newline == <<"\n">>

\* '\n'.join(strs)
RECURSIVE JoinNewline(_)
JoinNewline(strs) ==
    IF strs = <<>> THEN <<>>
    ELSE IF Len(strs) = 1 THEN strs[1]
    ELSE strs[1] \o Newline \o JoinNewline(Tail(strs))

\* turn_body_into_str (lines 113-122): the texts of the tags that have one
TurnBodyIntoStr(body_tags) ==
    JoinNewline(SelectSeq(body_tags, LAMBDA t : t # <<>>))

\* sorted(..., key=score, reverse=...) (lines 215-219): a stable sort, equal
\* scores staying in the order they came in
ReverseAlways(sorting) == TRUE
Reverse(sorting) == sorting # "ascending"
Before(x, y, reverse) == IF reverse THEN x.score > y.score ELSE x.score < y.score
RECURSIVE Sorted(_, _)
Sorted(list, reverse) ==
    IF list = <<>> THEN <<>>
    ELSE LET n == Len(list)
             front == Sorted(SubSeq(list, 1, n - 1), reverse)
             x == list[n]
             \* x goes after every element that is not after it
             k == Cardinality({i \in DOMAIN front : ~ Before(x, front[i], reverse)})
         IN SubSeq(front, 1, k) \o <<x>> \o SubSeq(front, k + 1, Len(front))

\* line 197
AcceptedAnswerId(q) == IF q.accepted_answer = None THEN "-1" ELSE q.accepted_answer

\* lines 206-224: the answer list of __call__
AnswerList(q, sorting) ==
    LET acc == AcceptedAnswerId(q)
        IsAccepted(d) == d.id = acc /\ sorting = "accepted"
        accepted == SelectSeq(q.answers, IsAccepted)
        others == SelectSeq(q.answers, LAMBDA d : ~ IsAccepted(d))
        sorted == Sorted(others, Reverse(sorting))
    IN IF accepted # <<>> /\ sorting = "accepted"
       THEN <<accepted[Len(accepted)]>> \o sorted
       ELSE sorted

\* process_answer (lines 160-178): the quality of an answer with a body
QualityGoodFirst(score, is_accepted, good) ==
    IF good = <<>> THEN <<>>
    ELSE IF is_accepted THEN <<"ACCEPTED">>
    ELSE IF score >= good[1] THEN <<"GOOD">>
    ELSE IF score >= top_answer_cutoff THEN <<"GREAT">>
    ELSE IF score <= bad_answer_cutoff THEN <<"BAD">>
    ELSE <<"OK">>
Quality(score, is_accepted, good) ==
    IF good = <<>> THEN <<>>
    ELSE IF is_accepted THEN <<"ACCEPTED">>
    ELSE IF score >= top_answer_cutoff THEN <<"GREAT">>
    ELSE IF score >= good[1] THEN <<"GOOD">>
    ELSE IF score <= bad_answer_cutoff THEN <<"BAD">>
    ELSE <<"OK">>

\* process_answer: no_answer_str, a str, for an answer without body (line
\* 163) and the tuple of quality and text otherwise (line 178)
ProcessAnswer(answer, score, is_accepted, good) ==
    IF answer = <<>> THEN [str |-> no_answer_str]
    ELSE [tuple |-> <<Quality(score, is_accepted, good), TurnBodyIntoStr(answer)>>]

\* d[i] of lines 280, 286, 287: an item of the tuple, or a character of the str
Item(d, i) == IF "str" \in DOMAIN d THEN <<d.str[i + 1]>> ELSE d.tuple[i + 1]

\* lines 255-259: the places in the answer list of the answers processed
RECURSIVE KeptFrom(_, _, _, _)
KeptFrom(list, i, answers_keep, allow) ==
    IF i > Len(list) THEN <<>>
    ELSE IF list[i].body = <<>> /\ ~ allow THEN KeptFrom(list, i + 1, answers_keep, allow)
    ELSE IF i - 1 >= answers_keep THEN <<>>
    ELSE <<i>> \o KeptFrom(list, i + 1, answers_keep, allow)

\* lines 238-241
AnswersKeep(list, per_sample) == IF per_sample = -1 THEN Len(list) ELSE per_sample

\* apply_prompt (lines 180-190): the kwargs the prompt is rendered with;
\* process_question (line 156) gives the question body
QuestionBody(q) == TurnBodyIntoStr(q.body)
ApplyPrompt(q, is_first_answer, answer_quality, repeat, repeat_body) ==
    [question |-> IF ~ is_first_answer /\ ~ repeat_body THEN NoneStr ELSE QuestionBody(q),
     quality |-> IF answer_quality # <<>> THEN answer_quality
                 ELSE IF repeat THEN <<"NONE">> ELSE <<"ACCEPTED">>]

\* lines 245-252 and 268-275: what is returned when there is no answer
NoAnswerNever(allow, smp) == <<>>
NoAnswerReturn(allow, smp) == IF allow THEN <<smp>> ELSE <<>>

\* StackOverflowProcessor.__call__ (lines 192-290)
ProcessorCall ==
    /\ pc = "so_call"
    /\ LET list == AnswerList(question, answer_sorting)
           acc == AcceptedAnswerId(question)
           kept == KeptFrom(list, 1, AnswersKeep(list, answers_per_sample), allow_no_answer)
           processed ==
               [k \in DOMAIN kept |->
                   ProcessAnswer(list[kept[k]].body, list[kept[k]].score,
                                 list[kept[k]].id = acc, good_answer_cutoff)]
           Prompt(is_first, quality) ==
               ApplyPrompt(question, is_first, quality, repeat_prompt_each_answer,
                           repeat_body_for_each_answer)
           no_answer == [input |-> Prompt(TRUE, <<>>), labels |-> no_answer_str]
       IN /\ answer_list' = list
          /\ IF list = <<>>
             THEN /\ answers_processed' = <<>>
                  /\ returned' = NoAnswerReturn(allow_no_answer, no_answer)
             ELSE /\ answers_processed' = processed
                  /\ returned' =
                       IF processed = <<>>
                       THEN NoAnswerReturn(allow_no_answer, no_answer)
                       ELSE IF ~ repeat_prompt_each_answer
                       THEN <<[input |-> Prompt(TRUE, <<>>),
                               labels |-> JoinNewline([k \in DOMAIN processed |->
                                                          Item(processed[k], 1)])]>>
                       ELSE [k \in DOMAIN processed |->
                               [input |-> Prompt(k = 1, Item(processed[k], 0)),
                                labels |-> Item(processed[k], 1)]]
    /\ pc' = "so_returned"
    /\ UNCHANGED <<answer_sorting, repeat_prompt_each_answer, answers_per_sample,
                   allow_no_answer, repeat_body_for_each_answer, good_answer_cutoff,
                   question, outsideProcessor>>

(***************************************************************************)
(* src/src/evaluation/evaluation.py: generate_code_predictions             *)
(***************************************************************************)
\* what generate_code_predictions leaves alone
outsideEval == <<secondVars, alignVars, files, initialVars, cardVars, tutorialVars,
                 mergeVars, processorVars,
                     laterVars>>

\* divmod(seq_per_sample, batch_size) (line 64)
NoRemainder(seq, batch) == 0
Quotient(seq, batch) == seq \div batch
Remainder(seq, batch) == seq % batch

\* pipe(...) with num_return_sequences = batch_size (lines 73, 112): one
\* generated sequence per returned sequence, the prompt cut off or not
\* (lines 113-118)
Pipe(sample, call, batch, cut) ==
    [k \in 1..batch |-> [sample |-> sample.idx, call |-> call, seq |-> k, cut |-> cut]]

\* lines 64-70: the steps per sample, or the ValueError
EvalStart ==
    /\ pc = "eval_start"
    /\ IF Remainder(seq_per_sample, batch_size) > 0
       THEN /\ pc' = "eval_raised"
            /\ eval_error' = "ValueError"
            /\ UNCHANGED generate_steps_per_sample
       ELSE /\ pc' = "eval_generate"
            /\ generate_steps_per_sample' = Quotient(seq_per_sample, batch_size)
            /\ UNCHANGED eval_error
    /\ UNCHANGED <<dataset, batch_size, seq_per_sample, remove_input_ids_from_output,
                   sample_i, gen_i, generated_for_current_sample, predictions, labels,
                   indices, pipe_calls, outsideEval>>

\* lines 111-124: one call of the pipeline for the current sample
EvalPipe ==
    /\ pc = "eval_generate"
    /\ sample_i < Len(dataset)
    /\ gen_i < generate_steps_per_sample
    /\ LET sample == dataset[sample_i + 1] IN
       /\ generated_for_current_sample' =
              generated_for_current_sample
                 \o Pipe(sample, gen_i, batch_size, remove_input_ids_from_output)
       /\ pipe_calls' = Append(pipe_calls, sample.idx)
    /\ gen_i' = gen_i + 1
    /\ UNCHANGED <<pc, dataset, batch_size, seq_per_sample, remove_input_ids_from_output,
                   generate_steps_per_sample, sample_i, predictions, labels, indices,
                   eval_error, outsideEval>>

\* lines 126-129, then line 109 for the next sample
EvalSample ==
    /\ pc = "eval_generate"
    /\ sample_i < Len(dataset)
    /\ gen_i = generate_steps_per_sample
    /\ IF Len(generated_for_current_sample) # seq_per_sample
       THEN /\ pc' = "eval_raised"
            /\ eval_error' = "AssertionError"
            /\ UNCHANGED <<sample_i, gen_i, generated_for_current_sample, predictions,
                           labels, indices>>
       ELSE /\ predictions' = Append(predictions, generated_for_current_sample)
            /\ labels' = Append(labels, dataset[sample_i + 1].target)
            /\ indices' = Append(indices, dataset[sample_i + 1].idx)
            /\ sample_i' = sample_i + 1
            /\ gen_i' = 0
            /\ generated_for_current_sample' = <<>>
            /\ UNCHANGED <<pc, eval_error>>
    /\ UNCHANGED <<dataset, batch_size, seq_per_sample, remove_input_ids_from_output,
                   generate_steps_per_sample, pipe_calls, outsideEval>>

\* lines 131-138
EvalReturn ==
    /\ pc = "eval_generate"
    /\ sample_i = Len(dataset)
    /\ pc' = "eval_returned"
    /\ UNCHANGED <<evalVars, outsideEval>>

(***************************************************************************)
(* ComposedExperiments and save_experiment_cards                           *)
(* (src/src/config/experiments.py, lines 49-140 and 391-426)               *)
(*                                                                         *)
(* A write is a record: [kind |-> "script", text |-> t] a write to         *)
(* experiments.sh, [kind |-> "config", path |-> p] a config file saved.    *)
(* The text of a write is a record too: [line |-> l] a line given in the   *)
(* code, [comment_for |-> name] the comment before a command, and for a    *)
(* rendered command the template with the dict it was rendered with.       *)
(***************************************************************************)
\* what save_experiment_cards leaves alone
outsideSave == <<secondVars, alignVars, files, initialVars, cardVars, tutorialVars,
                 evalVars, mergeVars, processorVars, comboVars, workerVars>>

\* __post_init__ (lines 67-71): a template that is None or '' is no template
PostInit(command_template) ==
    IF command_template \in {None, ""} THEN None ELSE command_template

\* a ComposedExperiments object as the dataclass makes it (lines 49-71)
ComposedExperiments(name, step_cards, command_template, command_kwargs) ==
    [name |-> name, step_cards |-> step_cards,
     command_template |-> PostInit(command_template),
     command_kwargs |-> command_kwargs]

ScriptWrite(text) == [kind |-> "script", text |-> text]
ConfigWrite(path) == [kind |-> "config", path |-> path]

\* ComposedExperiments.save (lines 88-123): one config file for every step
\* card, in the order of step_cards
Save(c) == [k \in DOMAIN c.step_cards |-> ConfigWrite(SavePath(c.step_cards[k].card))]

\* lines 128-138: idx and name, then the command kwargs, then the steps
RECURSIVE WithSteps(_, _)
WithSteps(template_dict, step_cards) ==
    IF step_cards = <<>> THEN template_dict
    ELSE WithSteps(Put(template_dict, Head(step_cards).key[1],
                       [path |-> SavePath(Head(step_cards).card),
                        save_name |-> SaveName(Head(step_cards).card)]),
                   Tail(step_cards))
TemplateDict(c, i) ==
    WithSteps(Update([k \in {"idx", "name"} |->
                         IF k = "idx" THEN [int |-> i] ELSE [str |-> c.name]],
                     c.command_kwargs),
              c.step_cards)

\* ComposedExperiments.get_command (lines 125-140); NoCommand is the None
\* it returns
NoCommand == [is_none |-> TRUE]
GetCommandAlways(c, i) ==
    [template |-> c.command_template, with |-> TemplateDict(c, i)]
GetCommand(c, i) ==
    IF c.command_template = None THEN NoCommand
    ELSE [template |-> c.command_template, with |-> TemplateDict(c, i)]

\* lines 420-425: what the loop writes for the command of an experiment
CommandWrites(c, command) ==
    IF command = NoCommand THEN <<>>
    ELSE <<ScriptWrite([comment_for |-> c.name]), ScriptWrite(command)>>

\* lines 410-417: the script is opened anew, its header and the starting
\* commands are written
SaveOpen ==
    /\ pc = "save_open"
    /\ save_log' = <<ScriptWrite([line |-> "#!/bin/bash"]),
                     ScriptWrite([line |-> "# Run experiments generated by the create_experiments.py"])>>
                   \o (IF starting_commands # None
                       THEN <<ScriptWrite([line |-> starting_commands])>> ELSE <<>>)
    /\ pc' = "save_loop"
    /\ UNCHANGED <<save_experiments, starting_commands, save_i, outsideSave>>

\* lines 419-425: the next composed experiment is saved, then its command
\* is written
SaveExperiment ==
    /\ pc = "save_loop"
    /\ save_i < Len(save_experiments)
    /\ LET c == save_experiments[save_i + 1]
           command == GetCommand(c, save_i)
       IN save_log' = save_log \o Save(c) \o CommandWrites(c, command)
    /\ save_i' = save_i + 1
    /\ UNCHANGED <<pc, save_experiments, starting_commands, outsideSave>>

\* line 426
SaveClose ==
    /\ pc = "save_loop"
    /\ save_i = Len(save_experiments)
    /\ pc' = "save_closed"
    /\ UNCHANGED <<saveVars, outsideSave>>

(***************************************************************************)
(* get_all_ablation_combinations (lines 143-165) on dict objects           *)
(*                                                                         *)
(* The override dict of value j of ablation i is the object <<"in", i, j>>,*)
(* the dict of combination c the object <<"out", c>>, the deep copy made   *)
(* for ablation i of combination c the object <<"copy", c, i>>; a dict     *)
(* inside a dict is an object of its own, as in Alloc.                     *)
(***************************************************************************)
\* what get_all_ablation_combinations leaves alone
outsideCombos == <<secondVars, alignVars, files, initialVars, cardVars, tutorialVars,
                   evalVars, mergeVars, processorVars, saveVars, workerVars>>

InId(i, j) == <<"in", i, j>>
OutId(c) == <<"out", c>>
CopyId(c, i) == <<"copy", c, i>>

\* the override dicts of the argument, as objects
RECURSIVE InputHeap(_, _, _)
InputHeap(dims, i, j) ==
    IF i > Len(dims) THEN EmptyMap
    ELSE IF j > Len(dims[i].values) THEN InputHeap(dims, i + 1, 1)
    ELSE Alloc(InputHeap(dims, i, j + 1), InId(i, j), dims[i].values[j].overrides)

\* line 153: itertools.product(*all_keys) as tuples of positions, the last
\* ablation varying fastest
RECURSIVE Product(_)
Product(sizes) ==
    IF sizes = <<>> THEN << <<>> >>
    ELSE LET before == Product(SubSeq(sizes, 1, Len(sizes) - 1))
             n == sizes[Len(sizes)]
         IN [k \in 1..(Len(before) * n) |->
               Append(before[((k - 1) \div n) + 1], ((k - 1) % n) + 1)]

\* line 158: deepcopy(ablation_override_dict), the copy being the object dst
NoCopy(h, src, dst) == [heap |-> h, id |-> src]
DeepCopy(h, src, dst) == [heap |-> Alloc(h, dst, Deref(h, src)), id |-> dst]

\* lines 156-158: combo_dict of combination c is updated for ablation i on
RECURSIVE ComboDict(_, _, _, _)
ComboDict(h, c, ablation_combo, i) ==
    IF i > Len(ablation_combo) THEN h
    ELSE LET copy == DeepCopy(h, InId(i, ablation_combo[i]), CopyId(c, i))
         IN ComboDict([copy.heap EXCEPT ![OutId(c)] = Update(@, copy.heap[copy.id])],
                      c, ablation_combo, i + 1)

\* lines 153-159 from combination c on
RECURSIVE ComboDicts(_, _, _)
ComboDicts(h, combos, c) ==
    IF c > Len(combos) THEN h
    ELSE ComboDicts(ComboDict(Put(h, OutId(c), EmptyMap), c, combos[c], 1), combos, c + 1)

\* line 159: '.'.join(ablation_combo), the names of the first n values chosen
RECURSIVE JoinNames(_, _, _)
JoinNames(dims, ablation_combo, n) ==
    IF n = 0 THEN <<>>
    ELSE JoinDot(JoinNames(dims, ablation_combo, n - 1),
                 dims[n].values[ablation_combo[n]].name)

\* get_all_ablation_combinations (lines 143-165)
CombosCall ==
    /\ pc = "combos_call"
    /\ LET combos == Product([i \in DOMAIN ablation_list |-> Len(ablation_list[i].values)])
           h == ComboDicts(combo_heap, combos, 1)
       IN /\ combo_heap' = h
          /\ combo_out' = [c \in DOMAIN combos |->
                              [name |-> JoinNames(ablation_list, combos[c], Len(ablation_list)),
                               id |-> OutId(c),
                               overrides |-> Deref(h, OutId(c))]]
    /\ pc' = "combos_returned"
    /\ UNCHANGED <<ablation_list, changed, outsideCombos>>

\* the caller writes to the overrides of one combination it was returned,
\* as merge does (lines 175-180): to a key of the dict or of a dict in it
ChangeOverrides ==
    /\ pc = "combos_returned"
    /\ changed = 0
    /\ \E c \in DOMAIN combo_out :
          /\ changed' = c
          /\ \/ combo_heap' = [combo_heap EXCEPT ![OutId(c)] = Put(@, "m", Leaf(0))]
             \/ \E k \in DOMAIN combo_heap[OutId(c)] :
                   /\ IsRef(combo_heap[OutId(c)][k])
                   /\ combo_heap' = [combo_heap EXCEPT
                                        ![combo_heap[OutId(c)][k].ref] = Put(@, "x", Leaf(0))]
    /\ UNCHANGED <<pc, ablation_list, combo_out, outsideCombos>>

(***************************************************************************)
(* FilterWorker (src/src/data/parse_so/dump_parsing.py, lines 26-63)       *)
(*                                                                         *)
(* A task is [line_num, line], NoTask is the None that ends a worker.  A   *)
(* call of a Python function with more positional arguments than it has    *)
(* parameters raises TypeError before the body runs.                       *)
(***************************************************************************)
\* what a FilterWorker leaves alone
outsideWorker == <<secondVars, alignVars, files, initialVars, cardVars, tutorialVars,
                   evalVars, mergeVars, processorVars, saveVars, comboVars>>

NoTask == [is_none |-> TRUE]
Task(line_num, line) == [line_num |-> line_num, line |-> line]

\* line 66: def parse_line(line_number, line)
ParseLineParameters == 2
\* line 59: parse_line(next_task['line_num'], next_task['line'], self.tag_filter)
RunArguments(task) == <<task.line_num, task.line, "tag_filter">>

\* the call of line 59: the result of parse_line, or the TypeError of a call
\* whose arguments do not fit the parameters
CallParseLine(args) ==
    IF Len(args) # ParseLineParameters THEN [raised |-> "TypeError"]
    ELSE [raised |-> None, value |-> ParseLine(args[1], args[2], args[1] + 1)]

\* lines 47-48
WorkerStart ==
    /\ pc = "worker_start"
    /\ log_queue' = Append(log_queue, [message |-> "Started"])
    /\ pc' = "worker_get"
    /\ UNCHANGED <<task_queue, tasks_taken, result_queue, task_done, outsideWorker>>

\* lines 49-63: one turn of the loop, get() having a task to return; the
\* message of line 63 is logged every 10000 tasks only
WorkerTask ==
    /\ pc = "worker_get"
    /\ task_queue # <<>>
    /\ LET task == Head(task_queue) IN
       /\ task_queue' = Tail(task_queue)
       /\ tasks_taken' = Append(tasks_taken, task)
       /\ IF task = NoTask
          THEN /\ log_queue' = log_queue \o <<[message |-> "Finished"], NoTask>>
               /\ task_done' = task_done + 1
               /\ pc' = "worker_returned"
               /\ UNCHANGED result_queue
          ELSE LET called == CallParseLine(RunArguments(task)) IN
               IF called.raised # None
               THEN /\ pc' = "worker_raised"
                    /\ UNCHANGED <<result_queue, log_queue, task_done>>
               ELSE /\ result_queue' = Append(result_queue, called.value)
                    /\ task_done' = task_done + 1
                    /\ UNCHANGED <<pc, log_queue>>
    /\ UNCHANGED outsideWorker

(***************************************************************************)
(* Specifications                                                          *)
(***************************************************************************)
\* parse_tutorials is not run
TutorialIdle ==
    /\ tutorial_files = <<>>
    /\ file_i = 0
    /\ domain_out = EmptyMap
    /\ parsed_sections = <<>>
    /\ logged = {}

\* generate_code_predictions is not run
EvalIdle ==
    /\ dataset = <<>>
    /\ batch_size = 1
    /\ seq_per_sample = 1
    /\ remove_input_ids_from_output = FALSE
    /\ generate_steps_per_sample = 0
    /\ sample_i = 0
    /\ gen_i = 0
    /\ generated_for_current_sample = <<>>
    /\ predictions = <<>>
    /\ labels = <<>>
    /\ indices = <<>>
    /\ pipe_calls = <<>>
    /\ eval_error = None

\* merge is not called on dicts of its own
MergeIdle ==
    /\ merge_a = EmptyMap
    /\ merge_b = EmptyMap
    /\ merge_out = EmptyMap
    /\ merge_b_after = EmptyMap

\* no StackOverflowProcessor is made
ProcessorIdle ==
    /\ answer_sorting = "accepted"
    /\ repeat_prompt_each_answer = FALSE
    /\ answers_per_sample = -1
    /\ allow_no_answer = FALSE
    /\ repeat_body_for_each_answer = FALSE
    /\ good_answer_cutoff = <<3>>
    /\ question = [accepted_answer |-> None, body |-> <<>>, answers |-> <<>>]
    /\ answer_list = <<>>
    /\ answers_processed = <<>>
    /\ returned = <<>>

\* the other programs of the repository are not run
\* save_experiment_cards is not called
SaveIdle ==
    /\ save_experiments = <<>>
    /\ starting_commands = None
    /\ save_i = 0
    /\ save_log = <<>>

\* get_all_ablation_combinations is not called on a list of its own
CombosIdle ==
    /\ ablation_list = <<>>
    /\ combo_heap = EmptyMap
    /\ combo_out = <<>>
    /\ changed = 0

\* no FilterWorker is started
WorkerIdle ==
    /\ task_queue = <<>>
    /\ tasks_taken = <<>>
    /\ result_queue = <<>>
    /\ log_queue = <<>>
    /\ task_done = 0

LaterIdle == SaveIdle /\ CombosIdle /\ WorkerIdle
RestIdle == TutorialIdle /\ EvalIdle /\ MergeIdle /\ ProcessorIdle /\ LaterIdle

\* the card composer is not part of a run of the dump parser
CardsIdle ==
    /\ card_file = <<>>
    /\ global_defaults = EmptyMap
    /\ exp_i = 0
    /\ experiment_overrides = EmptyMap
    /\ ablations = <<>>
    /\ experiment_steps = <<>>
    /\ abl_i = 0
    /\ step_i = 0
    /\ previous_step = NoStep
    /\ composed = [name |-> NoneStr, step_cards |-> <<>>]
    /\ composed_experiments = <<>>
    /\ card = NoCard
    /\ error = None

\* initial_parse_dump has not run in the model, or is over
InitialIdle ==
    /\ dump = <<>>
    /\ line_number = 0
    /\ failures_counts = [r \in FailResults |-> 0]
    /\ post_type_counter = [n \in Range(PostTypeToStr) |-> 0]
    /\ post_type_to_file = [t \in DOMAIN PostTypeToStr |-> <<>>]

AlignInit ==
    /\ next_task = 0
    /\ workers = [w \in 1..NumWorkers |-> Idle]
    /\ results = {}
    /\ collected = 0
    /\ orphans_by_tag = EmptyMap

\* lines 374-382 of parse_so_dump: the Counter of the initial pass, or one
\* str per row of Tags.xml when the file exists
TagCountsInit ==
    \/ tag_counts = [isStr |-> FALSE, c |-> CounterOfTags(questions_file)]
    \/ \E f \in [Tags -> CountStrs] : tag_counts = [isStr |-> TRUE, c |-> f]

\* lines 246-260 of second_parse_dump
SecondInit ==
    /\ questions_file \in QuestionFiles
    /\ answers_file \in AnswerFiles(Len(questions_file))
    /\ question_overview_data = OverviewOf(questions_file)
    /\ TagCountsInit
    /\ tag_file_descriptors = {}
    /\ open_files = {}
    /\ files = [t \in FileTags |-> <<>>]
    /\ tag_files = <<>>
    /\ posts_per_tag = [t \in FileTags |-> 0]
    /\ pc = "questions"
    /\ idx = 0
    /\ parsed = NoLine
    /\ tag_to_use = None
    /\ shards_in = files
    /\ AlignInit
    /\ InitialIdle
    /\ CardsIdle
    /\ RestIdle

SecondPass ==
    \/ QuestionsNext
    \/ QuestionsCap
    \/ QuestionsEnd
    \/ AnswersNext
    \/ AnswersCap
    \/ AnswersEnd

AlignPool ==
    \/ \E w \in 1..NumWorkers : WorkerRead(w)
    \/ \E w \in 1..NumWorkers : WorkerWrite(w)
    \/ Collect
    \/ AlignDone

NextSecond == SecondPass \/ AlignPool
SpecSecond == SecondInit /\ [][NextSecond]_vars

\* the posts a shard of SpecAlign is made of: two questions, two answers to
\* the first and one to the second
ShardPool ==
    {QuestionLine(1, <<>>), QuestionLine(2, <<>>),
     AnswerLine(3, 1), AnswerLine(4, 1), AnswerLine(5, 2)}
Orderings(S) ==
    {f \in [1..Cardinality(S) -> S] : \A i, j \in 1..Cardinality(S) : f[i] = f[j] => i = j}

\* the pool of parse_so_dump on two shards of distinct posts, in any order
AlignOnlyInit ==
    /\ questions_file = <<>>
    /\ answers_file = <<>>
    /\ question_overview_data = EmptyMap
    /\ tag_counts = [isStr |-> FALSE, c |-> EmptyMap]
    /\ tag_file_descriptors = {}
    /\ open_files = {}
    /\ tag_files = <<"t1", "t2">>
    /\ posts_per_tag = [t \in FileTags |-> 0]
    /\ idx = 0
    /\ parsed = NoLine
    /\ tag_to_use = None
    /\ \E where \in [ShardPool -> {"t1", "t2", "nowhere"}] :
          LET S1 == {l \in ShardPool : where[l] = "t1"}
              S2 == {l \in ShardPool : where[l] = "t2"}
          IN /\ Cardinality(S1) <= MaxShardLen
             /\ Cardinality(S2) <= MaxShardLen
             /\ \E o1 \in Orderings(S1), o2 \in Orderings(S2) :
                   files = [t \in FileTags |->
                              IF t = "t1" THEN o1 ELSE IF t = "t2" THEN o2 ELSE <<>>]
    /\ shards_in = files
    /\ pc = "align"
    /\ AlignInit
    /\ InitialIdle
    /\ CardsIdle
    /\ RestIdle

SpecAlign == AlignOnlyInit /\ [][AlignPool]_vars

\* lines 179-191 of initial_parse_dump
InitialInit ==
    /\ dump \in Dumps
    /\ line_number = 0
    /\ failures_counts = [r \in FailResults |-> 0]
    /\ post_type_counter = [n \in Range(PostTypeToStr) |-> 0]
    /\ post_type_to_file = [t \in DOMAIN PostTypeToStr |-> <<>>]
    /\ question_overview_data = EmptyMap
    /\ tag_counts = [isStr |-> FALSE, c |-> EmptyMap]
    /\ pc = "initial"
    /\ questions_file = <<>>
    /\ answers_file = <<>>
    /\ tag_file_descriptors = {}
    /\ open_files = {}
    /\ files = [t \in FileTags |-> <<>>]
    /\ tag_files = <<>>
    /\ posts_per_tag = [t \in FileTags |-> 0]
    /\ idx = 0
    /\ parsed = NoLine
    /\ tag_to_use = None
    /\ shards_in = files
    /\ AlignInit
    /\ CardsIdle
    /\ RestIdle

NextInitial == InitialNext \/ InitialEnd
SpecInitial == InitialInit /\ [][NextInitial]_vars

\* the dump parser is not part of a run of the card composer
DumpIdle ==
    /\ questions_file = <<>>
    /\ answers_file = <<>>
    /\ question_overview_data = EmptyMap
    /\ tag_counts = [isStr |-> FALSE, c |-> EmptyMap]
    /\ tag_file_descriptors = {}
    /\ open_files = {}
    /\ files = [t \in FileTags |-> <<>>]
    /\ tag_files = <<>>
    /\ posts_per_tag = [t \in FileTags |-> 0]
    /\ idx = 0
    /\ parsed = NoLine
    /\ tag_to_use = None
    /\ shards_in = files
    /\ AlignInit
    /\ InitialIdle

\* the override dicts a level of a card file can carry, v telling the level
OneKey(k, c) == [x \in {k} |-> c]
OverrideOpts(v) ==
    {EmptyMap, OneKey("m", Leaf(v)), OneKey("m", Dict(OneKey("x", Leaf(v)))),
     OneKey("m", Dict(OneKey("y", Leaf(v))))}

StepDict(name, group, overrides) ==
    [name |-> name, group |-> group, base |-> <<"b">>, overrides |-> overrides]
ExperimentDict(name, add_name, overrides, abls, steps) ==
    [name |-> name, group |-> <<"g">>, base |-> <<"b">>, add_name |-> add_name,
     overrides |-> overrides, ablations |-> abls, steps |-> steps]
OneAblation(o1, o2) ==
    <<[name |-> <<"abl">>,
       values |-> <<[name |-> <<"a1">>, overrides |-> o1],
                    [name |-> <<"a2">>, overrides |-> o2]>>]>>

\* card files of one experiment with two ablation values and two steps,
\* every level carrying overrides of its own
OverrideFiles ==
    {<<ExperimentDict(<<"e1">>, TRUE, eo, OneAblation(a1, a2),
                      <<StepDict(<<"s1">>, <<"g">>, s1), StepDict(<<"s2">>, <<"g">>, s2)>>)>> :
        eo \in OverrideOpts(2), a1 \in OverrideOpts(3),
        a2 \in {EmptyMap, OneKey("m", Dict(OneKey("x", Leaf(4))))},
        s1 \in OverrideOpts(5), s2 \in OverrideOpts(6)}

\* card files of up to MaxExperiments experiments without overrides, with or
\* without ablations and steps, the names being what varies
ExpNames == <<"e1", "e2", "e3", "e4">>
StepLists ==
    {<<>>,
     <<StepDict(<<"s1">>, <<"g">>, EmptyMap)>>,
     <<StepDict(<<"s1">>, <<"g">>, EmptyMap), StepDict(<<"s2">>, <<"g">>, EmptyMap)>>,
     <<StepDict(<<"s1">>, <<"g">>, EmptyMap), StepDict(<<"s2">>, <<"h">>, EmptyMap)>>,
     <<StepDict(<<"s1">>, <<"g">>, EmptyMap), StepDict(<<"s1">>, <<"g">>, EmptyMap)>>}
NamedExperiments(k) ==
    {ExperimentDict(<<ExpNames[k]>>, add_name, EmptyMap, abls, steps) :
        add_name \in BOOLEAN, abls \in {<<>>, OneAblation(EmptyMap, EmptyMap)},
        steps \in StepLists}
NameFiles ==
    UNION {{f \in [1..n -> UNION {NamedExperiments(k) : k \in 1..n}] :
               \A k \in 1..n : f[k] \in NamedExperiments(k)}
           : n \in 1..MaxExperiments}

\* card files whose last experiment leaves out group or base, of the card or
\* of one of its steps, or the name of a step; an experiment with steps
\* needs no group and no base of its own
Without(r, keys) ==
    [k \in DOMAIN r |-> IF k \in keys /\ k \in {"name", "group", "base"} THEN NoneStr ELSE r[k]]
KeySets == {{"group"}, {"base"}, {"group", "base"}}
StepKeySets == KeySets \cup {{"name"}}
TwoSteps == <<StepDict(<<"s1">>, <<"g">>, EmptyMap), StepDict(<<"s2">>, <<"g">>, EmptyMap)>>
LackingExperiments(k) ==
    LET AblationOpts == {<<>>, OneAblation(EmptyMap, EmptyMap)}
        Card(abls, steps) == ExperimentDict(<<ExpNames[k]>>, TRUE, EmptyMap, abls, steps)
    IN {Without(Card(abls, <<>>), keys) : abls \in AblationOpts, keys \in KeySets}
       \cup {Without(Card(abls, [TwoSteps EXCEPT ![i] = Without(@, keys)]), card_keys) :
                 abls \in AblationOpts, i \in 1..2, keys \in StepKeySets,
                 card_keys \in {{}, {"group", "base"}}}
       \cup {Without(Card(abls, TwoSteps), {"group", "base"}) : abls \in AblationOpts}
LackingFiles ==
    UNION {{f \in [1..n -> UNION {NamedExperiments(k) \cup LackingExperiments(k) : k \in 1..n}] :
               /\ \A k \in 1..(n - 1) : f[k] \in NamedExperiments(k) /\ f[k].steps = <<>>
               /\ f[n] \in LackingExperiments(n)}
           : n \in 1..MaxExperiments}

\* global_defaults.get('overrides', {}) (line 211): nothing when the generator
\* is called as line 365 calls it, a dict of defaults when a caller passes one
GlobalOpts == {EmptyMap, OneKey("m", Dict(OneKey("x", Leaf(1))))}

\* lines 346-361 of load_composed_experiments_from_file, and the parameters
\* of get_experiment_card_cfg_from_dict (lines 184-188)
CardsInit ==
    /\ card_file \in OverrideFiles \cup NameFiles \cup LackingFiles
    /\ global_defaults \in (IF card_file \in OverrideFiles THEN GlobalOpts ELSE {EmptyMap})
    /\ exp_i = 0
    /\ experiment_overrides = EmptyMap
    /\ ablations = <<>>
    /\ experiment_steps = <<>>
    /\ abl_i = 0
    /\ step_i = 0
    /\ previous_step = NoStep
    /\ composed = [name |-> NoneStr, step_cards |-> <<>>]
    /\ composed_experiments = <<>>
    /\ card = NoCard
    /\ error = None
    /\ pc = "card_next"
    /\ DumpIdle
    /\ RestIdle

NextCards ==
    \/ ExperimentStart
    \/ StepCard
    \/ AblationYield
    \/ DuplicateCheck
SpecCards == CardsInit /\ [][NextCards]_vars

\* the child tags of a subsection and of a first level section
SubKinds == {"h", "p", "empty"}
Kinds == {"h", "figure", "p", "code", "empty", "ignored", "unknown"}
SeqsUpTo(S, n) == UNION {[1..k -> S] : k \in 0..n}
SubSections == {Section(c) : c \in SeqsUpTo({Tag(k) : k \in SubKinds}, MaxSubChildren)}
SectionTags == SeqsUpTo({Tag(k) : k \in Kinds} \cup SubSections, MaxChildren)
\* a section begins with its header, or has its tags in any order
Sections ==
    {Section(<<Tag("h")>> \o c) : c \in SectionTags} \cup {Section(c) : c \in SectionTags}

\* the pages of the model: one section of any content, alone or followed by
\* a section of a header, a blank tag and a paragraph
LastSection == Section(<<Tag("h"), Tag("empty"), Tag("p")>>)
Pages == {<<sec>> : sec \in Sections} \cup {<<sec, LastSection>> : sec \in Sections}
\* a page that parses and a page that does not
GoodPage == <<Section(<<Tag("h"), Tag("p")>>)>>
BadPage == <<Section(<<Tag("h"), Tag("unknown")>>)>>

\* files of lines 86-99: the out_names of a domain are distinct (lines 91-92)
TutorialInit ==
    /\ \E first, last \in {GoodPage, BadPage}, page \in Pages :
          tutorial_files = <<[page |-> first, out_name |-> "g_1"],
                             [page |-> page, out_name |-> "g_2"],
                             [page |-> last, out_name |-> "g_3"]>>
    /\ file_i = 0
    /\ domain_out = EmptyMap
    /\ parsed_sections = <<>>
    /\ logged = {}
    /\ pc = "parse_files"
    /\ DumpIdle
    /\ CardsIdle
    /\ EvalIdle
    /\ MergeIdle
    /\ ProcessorIdle
    /\ LaterIdle

NextTutorial ==
    \/ ParseFile
    \/ ParseEnd
SpecTutorials == TutorialInit /\ [][NextTutorial]_vars

\* the samples of a dataset: idx and target are what line 128-129 read
Sample(i) == [idx |-> 10 * i, target |-> <<"target", i>>]

EvalInit ==
    /\ dataset \in {[i \in 1..n |-> Sample(i)] : n \in 0..MaxSamples}
    /\ batch_size \in 1..MaxBatchSize
    /\ seq_per_sample \in 0..MaxSeqPerSample
    /\ remove_input_ids_from_output \in BOOLEAN
    /\ generate_steps_per_sample = 0
    /\ sample_i = 0
    /\ gen_i = 0
    /\ generated_for_current_sample = <<>>
    /\ predictions = <<>>
    /\ labels = <<>>
    /\ indices = <<>>
    /\ pipe_calls = <<>>
    /\ eval_error = None
    /\ pc = "eval_start"
    /\ DumpIdle
    /\ CardsIdle
    /\ TutorialIdle
    /\ MergeIdle
    /\ ProcessorIdle
    /\ LaterIdle

NextEval ==
    \/ EvalStart
    \/ EvalPipe
    \/ EvalSample
    \/ EvalReturn
SpecEval == EvalInit /\ [][NextEval]_vars

\* the dicts merge is called on: a key holds a leaf or a dict of leaves
PartialMaps(K, V) == UNION {[D -> V] : D \in SUBSET K}
LeafValues == {Leaf(v) : v \in 1..MaxLeaf}
MergeValues == LeafValues \cup {Dict(d) : d \in PartialMaps({"x", "y"}, LeafValues)}
MergeDicts == PartialMaps({"m", "n"}, MergeValues)

MergeInit ==
    /\ merge_a \in MergeDicts
    /\ merge_b \in MergeDicts
    /\ merge_out = EmptyMap
    /\ merge_b_after = EmptyMap
    /\ pc = "merge_call"
    /\ DumpIdle
    /\ CardsIdle
    /\ TutorialIdle
    /\ EvalIdle
    /\ ProcessorIdle
    /\ LaterIdle

NextMerge == MergeCall
SpecMerge == MergeInit /\ [][NextMerge]_vars

\* the answers of a question: ids of their own, a score on either side of
\* every cutoff, a body of one tag or none
AnswerIds == <<"a1", "a2", "a3", "a4">>
Scores == {-2, 1, 5, 20}
Answer(i, score, has_body) ==
    [id |-> AnswerIds[i], score |-> score,
     body |-> IF has_body THEN <<<<"text of", AnswerIds[i]>>>> ELSE <<>>]
AnswerLists ==
    UNION {{[i \in 1..n |-> Answer(i, sc[i], hb[i])] :
               sc \in [1..n -> Scores], hb \in [1..n -> BOOLEAN]}
           : n \in 0..MaxPostAnswers}
Questions ==
    {[accepted_answer |-> acc, body |-> <<<<"question">>>>, answers |-> as] :
        as \in AnswerLists, acc \in {None} \cup {AnswerIds[i] : i \in 1..MaxPostAnswers}}

\* the arguments of __init__ (lines 29-39) and the sample of __call__
ProcessorInit ==
    /\ answer_sorting \in {"ascending", "descending", "accepted"}
    /\ repeat_prompt_each_answer \in BOOLEAN
    /\ repeat_body_for_each_answer \in
          (IF repeat_prompt_each_answer THEN BOOLEAN ELSE {FALSE})
    /\ answers_per_sample \in {-1, 0, 1}
    /\ allow_no_answer \in BOOLEAN
    /\ good_answer_cutoff \in {<<3>>, <<>>}
    /\ question \in {q \in Questions :
                        q.accepted_answer \in {None} \cup {q.answers[i].id : i \in DOMAIN q.answers}}
    /\ answer_list = <<>>
    /\ answers_processed = <<>>
    /\ returned = <<>>
    /\ pc = "so_call"
    /\ DumpIdle
    /\ CardsIdle
    /\ TutorialIdle
    /\ EvalIdle
    /\ MergeIdle
    /\ LaterIdle

NextProcessor == ProcessorCall
SpecProcessor == ProcessorInit /\ [][NextProcessor]_vars

\* the ComposedExperiments a card file gives: one or two step cards, a
\* command template or none, command kwargs or none; the save names differ
\* as load_composed_experiments_from_file checks (lines 373-388)
MaxSaved == 3
SavedNames == <<"c1", "c2", "c3", "c4">>
SavedSteps(k) ==
    {<<[key |-> <<"single">>,
        card |-> ExperimentCard(<<SavedNames[k]>>, <<"b">>, <<"g">>, EmptyMap, NoneStr)]>>,
     <<[key |-> <<"s1">>,
        card |-> ExperimentCard(<<SavedNames[k], ".", "s1">>, <<"b">>, <<"g">>, EmptyMap,
                                NoneStr)],
       [key |-> <<"s2">>,
        card |-> ExperimentCard(<<SavedNames[k], ".", "s2">>, <<"b">>, <<"g">>, EmptyMap,
                                <<"g", ".", SavedNames[k], ".", "s1">>)]>>}
Saved(k) ==
    {ComposedExperiments(<<SavedNames[k]>>, steps, template, kwargs) :
        steps \in SavedSteps(k), template \in {None, "", "python train.py"},
        kwargs \in {EmptyMap, OneKey("lr", Leaf(1))}}
SavedLists ==
    UNION {{f \in [1..n -> UNION {Saved(k) : k \in 1..n}] :
               \A k \in 1..n : f[k] \in Saved(k)}
           : n \in 0..MaxSaved}

\* the arguments of save_experiment_cards (lines 391-396)
SaveInit ==
    /\ save_experiments \in SavedLists
    /\ starting_commands \in {None, "source env.sh"}
    /\ save_i = 0
    /\ save_log = <<>>
    /\ pc = "save_open"
    /\ DumpIdle
    /\ CardsIdle
    /\ TutorialIdle
    /\ EvalIdle
    /\ MergeIdle
    /\ ProcessorIdle
    /\ CombosIdle
    /\ WorkerIdle

NextSave ==
    \/ SaveOpen
    \/ SaveExperiment
    \/ SaveClose
SpecSave == SaveInit /\ [][NextSave]_vars

\* the 'ablations' of a card: up to MaxAblations ablations of up to
\* MaxValues values each, the override dict of a value telling which it is
MaxAblations == 2
MaxValues == 2
ValueNames == <<<<"a1", "a2", "a3">>, <<"b1", "b2", "b3">>, <<"c1", "c2", "c3">>>>
ValueOverrides(i, j) ==
    {OneKey("m", Leaf(10 * i + j)), OneKey("m", Dict(OneKey("x", Leaf(10 * i + j)))),
     OneKey("n", Dict(OneKey("y", Leaf(10 * i + j))))}
Ablations(i) ==
    UNION {{[name |-> <<"abl">>, values |-> v] :
              v \in {f \in [1..n -> UNION {{[name |-> <<ValueNames[i][j]>>, overrides |-> o] :
                                              o \in ValueOverrides(i, j)} : j \in 1..n}] :
                        \A j \in 1..n : f[j].name = <<ValueNames[i][j]>>}}
           : n \in 0..MaxValues}
AblationLists ==
    UNION {{f \in [1..n -> UNION {Ablations(i) : i \in 1..n}] :
               \A i \in 1..n : f[i] \in Ablations(i)}
           : n \in 0..MaxAblations}

\* the argument of get_all_ablation_combinations (line 143)
CombosInit ==
    /\ ablation_list \in AblationLists
    /\ combo_heap = InputHeap(ablation_list, 1, 1)
    /\ combo_out = <<>>
    /\ changed = 0
    /\ pc = "combos_call"
    /\ DumpIdle
    /\ CardsIdle
    /\ TutorialIdle
    /\ EvalIdle
    /\ MergeIdle
    /\ ProcessorIdle
    /\ SaveIdle
    /\ WorkerIdle

NextCombos ==
    \/ CombosCall
    \/ ChangeOverrides
SpecCombos == CombosInit /\ [][NextCombos]_vars

\* the task queue of a worker: up to MaxTasks tasks, lines of a dump and
\* None in any order
MaxTasks == 3
TaskQueues ==
    UNION {{[k \in 1..n |-> IF f[k] = NoTask THEN NoTask ELSE Task(k - 1, f[k])] :
               f \in [1..n -> DumpRows \cup {NoTask}]}
           : n \in 0..MaxTasks}

\* FilterWorker.__init__ (lines 27-39), the queues holding what was put
WorkerInit ==
    /\ task_queue \in TaskQueues
    /\ tasks_taken = <<>>
    /\ result_queue = <<>>
    /\ log_queue = <<>>
    /\ task_done = 0
    /\ pc = "worker_start"
    /\ DumpIdle
    /\ CardsIdle
    /\ TutorialIdle
    /\ EvalIdle
    /\ MergeIdle
    /\ ProcessorIdle
    /\ SaveIdle
    /\ CombosIdle

NextWorker ==
    \/ WorkerStart
    \/ WorkerTask
SpecWorker == WorkerInit /\ [][NextWorker]_vars

(***************************************************************************)
(* Claims                                                                  *)
(***************************************************************************)
\* the second pass is over (its shards are in shards_in)
SecondPassOver == pc \in {"align", "done"}
InCap == pc \in {"questions_cap", "answers_cap"}

\* the posts second_parse_dump hands to save_post_using_tag: the questions,
\* and the answers whose parent is known, with their parent's tags
SecondPassPosts ==
    Range(questions_file) \cup
    {[answers_file[i] EXCEPT !.tags = question_overview_data[answers_file[i].parent_id].tags] :
        i \in {j \in DOMAIN answers_file :
                  answers_file[j].parent_id \in DOMAIN question_overview_data}}

\* C1: once the second pass has finished, every PASS question and every
\* answer with a known parent is a line of the shard file of its chosen tag.
C1_NoRecordDropped ==
    SecondPassOver =>
        \A p \in SecondPassPosts : p \in Range(shards_in[ChooseTag(tag_counts, p.tags)])

\* C2: never more than max_files_open shard files are open, the open files
\* are the tracked ones, and between two posts fewer than max_files_open are
\* tracked: a full map is closed and emptied before the next post.
C2_HandleBudget ==
    /\ open_files = tag_file_descriptors
    /\ Cardinality(open_files) <= MaxFilesOpen
    /\ ~ InCap => Cardinality(tag_file_descriptors) < MaxFilesOpen

\* C2 witness: the answers loop fills the map up to the cap
C2_CapReached ==
    /\ pc = "answers_cap"
    /\ Cardinality(open_files) = MaxFilesOpen

\* an answer is in a shard as a line of its own or under a question
Contained(aid, lines) ==
    \E i \in DOMAIN lines :
        \/ lines[i].id = aid
        \/ "answers" \in DOMAIN lines[i] /\ aid \in DOMAIN lines[i].answers

\* C3: after the shards are aligned, every answer line a shard held before,
\* orphans included, is still contained in that shard.
C3_NoAnswerLost ==
    pc = "done" =>
        \A t \in FileTags : \A i \in DOMAIN shards_in[t] :
            shards_in[t][i].type = 2 => Contained(shards_in[t][i].id, files[t])

HasParentIn(a, lines) == \E j \in DOMAIN lines : lines[j].type = 1 /\ lines[j].id = a.parent_id

\* C4: after align_tag_file, an answer whose parent is in the shard is in the
\* answers of that question, under its id, and of no other question, and the
\* orphan count is the number of answers whose parent is not in the shard.
C4_AnswersUnderParent ==
    pc = "done" =>
        \A t \in Range(tag_files) :
            LET inp == shards_in[t]
                out == files[t]
            IN /\ \A i \in DOMAIN inp :
                     (inp[i].type = 2 /\ HasParentIn(inp[i], inp)) =>
                        /\ \E k \in DOMAIN out : out[k].id = inp[i].parent_id
                        /\ \A k \in DOMAIN out :
                              /\ inp[i].id \in DOMAIN out[k].answers
                                    <=> out[k].id = inp[i].parent_id
                              /\ out[k].id = inp[i].parent_id
                                    => out[k].answers[inp[i].id] = inp[i]
               /\ t \in DOMAIN orphans_by_tag
               /\ orphans_by_tag[t] =
                     Cardinality({i \in DOMAIN inp :
                                    inp[i].type = 2 /\ ~ HasParentIn(inp[i], inp)})

\* C4 witness: a shard with an answer before its question, an answer after
\* it and an orphan has been aligned
C4_BothOrdersAndOrphan ==
    /\ pc = "done"
    /\ \E t \in Range(tag_files) :
          LET inp == shards_in[t] IN
          /\ \E i, j, k \in DOMAIN inp :
                /\ i < j /\ j < k
                /\ inp[i].type = 2 /\ inp[j].type = 1 /\ inp[k].type = 2
                /\ inp[i].parent_id = inp[j].id /\ inp[k].parent_id = inp[j].id
          /\ orphans_by_tag[t] = 0
    /\ \E t \in Range(tag_files) : orphans_by_tag[t] > 0

\* C5: the shard a post is written to is NO_TAG when it has no tags, and
\* otherwise one of its tags whose frequency no other of its tags exceeds.
C5_HighestFrequencyTag ==
    InCap =>
        /\ files[tag_to_use] # <<>>
        /\ files[tag_to_use][Len(files[tag_to_use])] = parsed
        /\ IF parsed.tags = <<>> THEN tag_to_use = NO_TAG
           ELSE /\ tag_to_use \in Range(parsed.tags)
                /\ \A t \in Range(parsed.tags) :
                      NumericCount(tag_counts, t) <= NumericCount(tag_counts, tag_to_use)

\* C7: whatever the interleaving of the workers, every shard file ends as
\* align_tag_file alone leaves it and every tag gets the orphan count of its
\* own file; a file that is no task is left as it was.
C7_AlignIndependent ==
    pc = "done" =>
        \A t \in FileTags :
            IF t \in Range(tag_files)
            THEN /\ files[t] = AlignTagFile(shards_in[t]).out
                 /\ t \in DOMAIN orphans_by_tag
                 /\ orphans_by_tag[t] = AlignTagFile(shards_in[t]).orphans
            ELSE files[t] = shards_in[t] /\ t \notin DOMAIN orphans_by_tag

\* C7 witness: the second file has been rewritten and its result returned
\* while the first file's worker has read its file and not yet written it
C7_OutOfOrder ==
    /\ pc = "align"
    /\ \E r \in results : r.task = 2
    /\ \E w \in 1..NumWorkers : workers[w].state = "read" /\ workers[w].task = 1
    /\ shards_in[tag_files[1]] # <<>>
    /\ shards_in[tag_files[2]] # <<>>

\* the lines of the dump read so far that are no XML, or whose result is r
Malformed(i) == ~ dump[i].xml
ReadWithResult(r) == {i \in 1..line_number : ParsedAt(i).result = r}
Written(i) == \E t \in DOMAIN post_type_to_file :
                 \E k \in DOMAIN post_type_to_file[t] : post_type_to_file[t][k].line = i - 1

\* C6: a line that is not well-formed XML gets PARSE_FAIL, is counted in the
\* failure counts, is in no post-type file, no overview and no tag count,
\* and the pass reads on to the end of the dump.
C6_MalformedSkipped ==
    /\ \A i \in 1..line_number :
          Malformed(i) =>
             /\ ParsedAt(i).result = "PARSE_FAIL"
             /\ ~ Written(i)
             /\ i \notin DOMAIN question_overview_data
    /\ failures_counts["PARSE_FAIL"]
          = Cardinality({i \in 1..line_number : Malformed(i) \/ ~ IsIntStr(dump[i].PostTypeId)})
    /\ \A t \in Tags :
          CountOf(tag_counts, t)
            = Cardinality({i \in ReadWithResult("PASS") :
                             ~ Malformed(i) /\ dump[i].PostTypeId = "1"
                             /\ t \in Range(dump[i].Tags)})
    /\ pc = "initial_done" => line_number = Len(dump)
    /\ pc = "initial" => ENABLED NextInitial

\* C6 witness: the pass is over, and a question read after a line that is
\* not well-formed XML has been written to the questions file
C6_GoesOnAfterMalformed ==
    /\ pc = "initial_done"
    /\ \E i, j \in 1..Len(dump) :
          /\ i < j
          /\ Malformed(i)
          /\ ParsedAt(j).result = "PASS" /\ ParsedAt(j).type = 1
          /\ Written(j)
          /\ failures_counts["PARSE_FAIL"] >= 1

\* the overrides of a level merged into those of the levels above it, the
\* level's value winning and two dicts at one key merged key by key
DeepMerge(a, b) ==
    [k \in DOMAIN a \cup DOMAIN b |->
        IF k \notin DOMAIN b THEN a[k]
        ELSE IF k \notin DOMAIN a THEN b[k]
        ELSE IF IsDict(a[k]) /\ IsDict(b[k]) THEN Dict(Update(a[k].dict, b[k].dict))
        ELSE b[k]]

\* the overrides the card file gives the ablation and the step of the card
\* built last
FileAblationOverrides ==
    IF Experiment.ablations = <<>> THEN EmptyMap
    ELSE Combos(Experiment.ablations)[abl_i].overrides
FileStepOverrides ==
    IF Experiment.steps = <<>> THEN EmptyMap ELSE Experiment.steps[step_i].overrides
CardBuilt == pc = "card_steps" /\ step_i > 0

\* C8: the overrides of every card are those of the global defaults, the
\* experiment, the ablation and the step merged in this order, the more
\* specific level winning and dicts at the same key merged key by key.
C8_MostSpecificLevelWins ==
    CardBuilt =>
        card.overrides =
            DeepMerge(DeepMerge(DeepMerge(global_defaults, Experiment.overrides),
                                FileAblationOverrides),
                      FileStepOverrides)

\* the cards of a composed experiment, in the order of step_cards
CardsOf(ce) == [i \in DOMAIN ce.step_cards |-> ce.step_cards[i].card]
Chained(cards) ==
    \A i \in DOMAIN cards :
        cards[i].depends_on = IF i = 1 THEN NoneStr ELSE SaveName(cards[i - 1])
AblationComposed == pc = "card_steps" /\ step_i = Len(experiment_steps)

\* C9: in every composed experiment of a card of several steps, the card of
\* the first step has depends_on None and the card of every later step has
\* the save_name of the card of the step before it in the same ablation.
C9_DependsOnPreviousStep ==
    (AblationComposed /\ Len(Experiment.steps) > 1) => Chained(CardsOf(composed))

\* every card is built with depends_on None when it is the first step of
\* its ablation and with the save_name of the card built just before it
\* otherwise, and the cards of a composed experiment whose steps have
\* names of their own form this chain
DependsOnWhenBuilt ==
    /\ [][(pc = "card_steps" /\ pc' = "card_steps" /\ step_i' = step_i + 1) =>
             card'.depends_on = IF step_i = 0 THEN NoneStr ELSE SaveName(card)]_vars
    /\ [](AblationComposed /\ Len(composed.step_cards) = Len(experiment_steps)
             => Chained(CardsOf(composed)))

\* C10: when load_composed_experiments_from_file returns, no two of the
\* returned cards have the same save_name or the same config file, and when
\* two cards have the same save_name it has raised.
C10_NoDuplicateNames ==
    LET cards == AllCards(composed_experiments) IN
    /\ pc = "returned" =>
          \A i, j \in DOMAIN cards :
              i # j => SaveName(cards[i]) # SaveName(cards[j])
                       /\ SavePath(cards[i]) # SavePath(cards[j])
    /\ (pc \in {"returned", "raised"} /\ exp_i = Len(card_file)
          /\ \E i, j \in DOMAIN cards : i # j /\ SaveName(cards[i]) = SaveName(cards[j]))
         => pc = "raised" /\ error = "Duplicate Experiment names."

\* C10 witness: a file of several experiments has been loaded, two of its
\* cards differing in the group alone
C10_ReturnedManyCards ==
    /\ pc = "returned"
    /\ Len(composed_experiments) >= 2
    /\ Len(AllCards(composed_experiments)) >= 3

\* the dicts of a page in the order they were emitted
RECURSIVE Flatten(_)
Flatten(ss) == IF ss = <<>> THEN <<>> ELSE Head(ss) \o Flatten(Tail(ss))
PageParsed == pc \in {"parse_files", "parse_done", "parse_raised"} /\ file_i > 0

\* C11: the ids of the dicts TutorialHTMLParser.__call__ returns for a page
\* strictly increase in the order the dicts were emitted.
C11_IdsIncrease ==
    PageParsed =>
        LET emitted == Flatten(parsed_sections) IN
        \A i, j \in DOMAIN emitted : i < j => emitted[i].id < emitted[j].id

\* the files whose JSON is in domain_out
WrittenNames == DOMAIN domain_out
NamesBefore(k) == {tutorial_files[i].out_name : i \in 1..k}

\* C12: when the parser raises on a file, the file is logged and the
\* exception ends the run: the JSON of the files before it is in place, none
\* is written for the file or for a file after it, and none of these is
\* parsed afterwards.
C12_RaiseEndsRun ==
    /\ \A k \in logged :
          /\ pc = "parse_raised"
          /\ file_i = k - 1
          /\ WrittenNames = NamesBefore(k - 1)
          /\ \A i \in 1..(k - 1) : domain_out[tutorial_files[i].out_name]
                                        = Call(tutorial_files[i].page).out
    /\ (pc = "parse_files" /\ file_i < Len(tutorial_files)
          /\ Call(tutorial_files[file_i + 1].page).raised)
         => ENABLED ParseFile
    /\ pc = "parse_raised" => logged # {} /\ ~ENABLED NextTutorial

\* C12 witness: the second file of three makes the parser raise after the
\* first has been written
C12_RaisedAfterWritten ==
    /\ pc = "parse_raised"
    /\ logged = {2}
    /\ WrittenNames = {"g_1"}
    /\ ~Call(tutorial_files[3].page).raised

\* the calls of the pipeline made for the sample of index i
CallsFor(i) == Cardinality({c \in DOMAIN pipe_calls : pipe_calls[c] = i})
Multiple == seq_per_sample % batch_size = 0

\* C13: generate_code_predictions raises ValueError with no call of the
\* pipeline made when seq_per_sample is not a multiple of batch_size, and
\* raises nothing otherwise; when it returns, the pipeline was called
\* seq_per_sample / batch_size times for every sample, and indices, labels
\* and predictions have one entry per sample, in dataset order, every entry
\* of predictions being seq_per_sample sequences generated for that sample.
C13_BatchedGeneration ==
    /\ ~Multiple =>
          /\ pc \in {"eval_start", "eval_raised"}
          /\ pipe_calls = <<>>
          /\ pc = "eval_raised" => eval_error = "ValueError"
    /\ Multiple => pc # "eval_raised"
    /\ pc = "eval_start" => ENABLED EvalStart
    /\ pc = "eval_generate" => ENABLED NextEval
    /\ pc = "eval_returned" =>
          /\ Len(indices) = Len(dataset)
          /\ Len(labels) = Len(dataset)
          /\ Len(predictions) = Len(dataset)
          /\ \A i \in DOMAIN dataset :
                /\ indices[i] = dataset[i].idx
                /\ labels[i] = dataset[i].target
                /\ Len(predictions[i]) = seq_per_sample
                /\ \A k \in DOMAIN predictions[i] :
                      predictions[i][k].sample = dataset[i].idx
                /\ CallsFor(dataset[i].idx) * batch_size = seq_per_sample

\* C13 witness: two samples were generated for in two calls each
C13_TwoCallsPerSample ==
    /\ pc = "eval_returned"
    /\ Len(dataset) = 2
    /\ batch_size = 2
    /\ seq_per_sample = 4
    /\ Len(pipe_calls) = 4

\* the lines read so far that are a post other than a question or an answer
OtherPost(i) ==
    /\ dump[i].xml
    /\ IsIntStr(dump[i].PostTypeId)
    /\ dump[i].PostTypeId \notin {"1", "2"}

\* C14: a post that is neither a question (PostTypeId 1) nor an answer
\* (PostTypeId 2) gets the result NOT_VALID_TYPE from parse_line, has no
\* body and no type, and the initial pass writes it to no file.
C14_OnlyQuestionsAndAnswers ==
    \A i \in 1..line_number :
        OtherPost(i) =>
            /\ ParsedAt(i).result = "NOT_VALID_TYPE"
            /\ ParsedAt(i).body = None
            /\ ParsedAt(i).type = 0
            /\ ~ Written(i)

\* the overrides of step k of the experiment as the card file has them
FileOverridesOfStep(k) ==
    IF Experiment.steps = <<>> THEN EmptyMap ELSE Experiment.steps[k].overrides

\* C15: after the card of a step has been composed, the override dicts of
\* the experiment, of the ablation and of every step hold what they held
\* before any card was built.
C15_OverridesUntouched ==
    CardBuilt =>
        /\ experiment_overrides = Update(global_defaults, Experiment.overrides)
        /\ ablations[abl_i].overrides = FileAblationOverrides
        /\ \A k \in DOMAIN experiment_steps :
              experiment_steps[k].overrides = FileOverridesOfStep(k)

\* both dicts hold a dict at key k
BothDicts(k) ==
    /\ k \in DOMAIN merge_a /\ k \in DOMAIN merge_b
    /\ IsDict(merge_a[k]) /\ IsDict(merge_b[k])

\* C16: when merge(a, b) has returned, a holds the value of b at every leaf
\* key path of b and its own value at every key b does not have, two dicts
\* at one key having been merged in the same way, and b holds what it held
\* before the call.
C16_MergeIntoA ==
    pc = "merge_returned" =>
        /\ merge_b_after = merge_b
        /\ DOMAIN merge_out = DOMAIN merge_a \cup DOMAIN merge_b
        /\ \A k \in DOMAIN merge_a \ DOMAIN merge_b : merge_out[k] = merge_a[k]
        /\ \A k \in DOMAIN merge_b :
              IF BothDicts(k)
              THEN /\ IsDict(merge_out[k])
                   /\ DOMAIN merge_out[k].dict
                         = DOMAIN merge_a[k].dict \cup DOMAIN merge_b[k].dict
                   /\ \A j \in DOMAIN merge_b[k].dict :
                         merge_out[k].dict[j] = merge_b[k].dict[j]
                   /\ \A j \in DOMAIN merge_a[k].dict \ DOMAIN merge_b[k].dict :
                         merge_out[k].dict[j] = merge_a[k].dict[j]
              ELSE merge_out[k] = merge_b[k]

\* C16 witness: two dicts with different keys at one key were merged, b
\* giving a key a did not have and another key being a's alone
C16_NestedMerged ==
    /\ pc = "merge_returned"
    /\ BothDicts("m")
    /\ DOMAIN merge_a["m"].dict = {"x", "y"}
    /\ DOMAIN merge_b["m"].dict = {"x"}
    /\ merge_a["m"].dict["x"] # merge_b["m"].dict["x"]
    /\ "n" \in DOMAIN merge_b \ DOMAIN merge_a
    /\ merge_out # merge_a
    /\ merge_out # merge_b

\* the call of the processor has returned
Returned == pc = "so_returned"
Descending(list) ==
    \A i, j \in DOMAIN list : i < j => list[i].score >= list[j].score
Ascending(list) ==
    \A i, j \in DOMAIN list : i < j => list[i].score <= list[j].score
HasAccepted == \E i \in DOMAIN question.answers :
                   question.answers[i].id = question.accepted_answer

\* C17: the answer list holds every answer of the question once; sorted by
\* 'accepted' it begins with the accepted answer, when there is one, the
\* others following by descending score; sorted by 'descending' or
\* 'ascending' it is in that order of score throughout.
C17_AnswerSorting ==
    Returned =>
        /\ Len(answer_list) = Len(question.answers)
        /\ \A i \in DOMAIN question.answers :
              \E j \in DOMAIN answer_list : answer_list[j] = question.answers[i]
        /\ answer_sorting = "accepted" =>
              IF HasAccepted
              THEN /\ answer_list[1].id = question.accepted_answer
                   /\ Descending(Tail(answer_list))
              ELSE Descending(answer_list)
        /\ answer_sorting = "descending" => Descending(answer_list)
        /\ answer_sorting = "ascending" => Ascending(answer_list)

\* C17 witness: the accepted answer, which has the lowest score and came
\* last, is first and the two others were put in descending order; and, in
\* another call, an accepted answer is in the middle of an ascending list
C17_AcceptedFirst ==
    /\ Returned
    /\ Len(answer_list) = 3
    /\ HasAccepted
    /\ \/ /\ answer_sorting = "accepted"
          /\ answer_list[1] = question.answers[3]
          /\ answer_list[2] = question.answers[2]
          /\ answer_list[1].score < answer_list[3].score
          /\ answer_list[3].score < answer_list[2].score
       \/ /\ answer_sorting = "ascending"
          /\ answer_list[2].id = question.accepted_answer
          /\ answer_list[1].score < answer_list[2].score
          /\ answer_list[2].score < answer_list[3].score

\* the sample returned for a question without an answer
NoAnswerSample ==
    [input |-> [question |-> QuestionBody(question),
                quality |-> IF repeat_prompt_each_answer THEN <<"NONE">> ELSE <<"ACCEPTED">>],
     labels |-> no_answer_str]

\* C18: when the question has no answers, or no answer was processed, the
\* call returns the empty list if allow_no_answer is false and, if it is
\* true, one sample whose labels are no_answer_str and whose input is the
\* prompt with the body of the question.
C18_NoAnswer ==
    (Returned /\ (question.answers = <<>> \/ answers_processed = <<>>)) =>
        IF allow_no_answer
        THEN /\ returned = <<NoAnswerSample>>
             /\ returned[1].input.question = <<"question">>
        ELSE returned = <<>>

\* C18 witness: a question with answers of which none was kept, and
\* allow_no_answer set
C18_NoneKept ==
    /\ Returned
    /\ allow_no_answer
    /\ Len(question.answers) >= 2
    /\ answers_processed = <<>>
    /\ Len(returned) = 1

\* the answers that were processed, in the order of the answer list
Kept ==
    KeptFrom(answer_list, 1, AnswersKeep(answer_list, answers_per_sample), allow_no_answer)
KeptAnswer(k) == answer_list[Kept[k]]
\* the text of a kept answer, t standing for the text of one without body
TextOr(k, t) == IF KeptAnswer(k).body = <<>> THEN t ELSE TurnBodyIntoStr(KeptAnswer(k).body)
EmptyTexts == {<<>>, no_answer_str}

\* C19: when answers were kept, the call returns one sample of the labels
\* of all of them joined by newlines, in sorted order, if
\* repeat_prompt_each_answer is false; if it is true, one sample per kept
\* answer in sorted order, with the text and the quality of that answer,
\* the body of the question being in the prompt of the first sample alone
\* unless repeat_body_for_each_answer is set.  The text of a kept answer
\* without body is taken to be empty or no_answer_str.
C19_SamplesOfKeptAnswers ==
    (Returned /\ answers_processed # <<>>) =>
        IF ~ repeat_prompt_each_answer
        THEN /\ Len(returned) = 1
             /\ \E t \in EmptyTexts :
                   returned[1].labels = JoinNewline([k \in DOMAIN Kept |-> TextOr(k, t)])
        ELSE /\ Len(returned) = Len(Kept)
             /\ \A k \in DOMAIN Kept :
                   /\ \E t \in EmptyTexts : returned[k].labels = TextOr(k, t)
                   /\ (KeptAnswer(k).body # <<>> /\ good_answer_cutoff # <<>>) =>
                         returned[k].input.quality = answers_processed[k].tuple[1]
                   /\ returned[k].input.question # NoneStr
                         <=> (k = 1 \/ repeat_body_for_each_answer)

\* the label of an answer by the precedence of the cutoffs
LabelOf(a) ==
    IF a.id = question.accepted_answer THEN <<"ACCEPTED">>
    ELSE IF a.score >= top_answer_cutoff THEN <<"GREAT">>
    ELSE IF a.score >= good_answer_cutoff[1] THEN <<"GOOD">>
    ELSE IF a.score <= bad_answer_cutoff THEN <<"BAD">>
    ELSE <<"OK">>

Script == LET w == SelectSeq(save_log, LAMBDA e : e.kind = "script")
          IN [k \in DOMAIN w |-> w[k].text]
IsCommand(text) == "template" \in DOMAIN text
ScriptCommands == SelectSeq(Script, IsCommand)
\* the experiments with a command template among the first k
Templated(k) == {j \in 1..k : save_experiments[j].command_template # None}

\* C21: the script starts with the '#!/bin/bash' line, the starting commands
\* follow if they are given, then the commands of the composed experiments
\* in list order, each rendered with idx equal to its position in the list;
\* the config files of an experiment are saved before its command is
\* written, and an experiment without a command template adds no line
C21_ScriptOrder ==
    pc # "save_open" =>
        LET start == IF starting_commands = None THEN 2 ELSE 3 IN
        /\ Script[1] = [line |-> "#!/bin/bash"]
        /\ starting_commands # None => Script[3] = [line |-> starting_commands]
        /\ Len(Script) = start + 2 * Cardinality(Templated(save_i))
        /\ \A k \in Templated(save_i) :
              LET n == Cardinality(Templated(k))
                  command == Script[start + 2 * n]
              IN /\ IsCommand(command)
                 /\ command.template = save_experiments[k].command_template
                 /\ command.with["idx"] = [int |-> k - 1]
                 /\ \E p \in DOMAIN save_log :
                       /\ save_log[p] = ScriptWrite(command)
                       /\ \A j \in DOMAIN save_experiments[k].step_cards :
                             \E q \in 1..(p - 1) :
                                save_log[q] =
                                    ConfigWrite(SavePath(save_experiments[k].step_cards[j].card))

\* the script is closed after three experiments were saved: the first and
\* the third have a command template, the second has none, the third has
\* two steps, and starting commands were given
C21_CommandAfterSkipped ==
    /\ pc = "save_closed"
    /\ starting_commands # None
    /\ Len(save_experiments) = 3
    /\ Templated(3) = {1, 3}
    /\ Len(save_experiments[3].step_cards) = 2
    /\ Len(ScriptCommands) = 2

\* a card that defines no steps lacks a group or a base config, or a step
\* of the card lacks a name, a group or a base
LacksAtStep(e, i) == NoneStr \in {e.steps[i].name, e.steps[i].group, e.steps[i].base}
Lacking(e) ==
    IF e.steps = <<>> THEN e.group = NoneStr \/ e.base = NoneStr
    ELSE \E i \in DOMAIN e.steps : LacksAtStep(e, i)
ValueErrors ==
    {"does not have a group", "does not have a base config", "does not have correct keys"}
\* the composed experiments yielded for the card of that name
YieldedFor(name) ==
    {i \in DOMAIN composed_experiments : composed_experiments[i].name[1] = name[1]}

\* C22: for a card without steps that lacks a group or a base config, and
\* for a card one of whose steps lacks a name, a group or a base, the
\* generator yields no composed experiment and goes no further than the
\* step that lacks the key, where it raises ValueError
C22_LackingCardRaises ==
    \A k \in DOMAIN card_file :
        Lacking(card_file[k]) =>
            /\ exp_i < k
            /\ YieldedFor(card_file[k].name) = {}
            /\ pc # "returned"
            /\ exp_i = k - 1 =>
                  /\ pc \in {"card_next", "card_steps", "raised"}
                  /\ pc = "raised" => error \in ValueErrors
                  /\ pc = "card_steps" =>
                        /\ card_file[k].steps # <<>>
                        /\ abl_i = 1
                        /\ \A i \in 1..step_i : ~LacksAtStep(card_file[k], i)
                        /\ step_i < Len(experiment_steps)

\* ValueError was raised at the second step of the second card of the file,
\* a card with ablations, after the first card was yielded
C22_RaisedAtSecondStep ==
    /\ pc = "raised"
    /\ error = "does not have correct keys"
    /\ exp_i = 1
    /\ step_i = 1
    /\ HasAblations
    /\ Len(composed_experiments) = 1

\* the Cartesian product of the value lists, as tuples of positions
Cartesian ==
    {t \in [DOMAIN ablation_list -> 1..MaxValues + 1] :
        \A i \in DOMAIN ablation_list : t[i] <= Len(ablation_list[i].values)}
Chosen(t, i) == ablation_list[i].values[t[i]]
\* the chosen value names joined with '.'
DotJoined(t) ==
    [k \in 1..(2 * Len(ablation_list) - (IF ablation_list = <<>> THEN 0 ELSE 1)) |->
        IF k % 2 = 0 THEN "." ELSE Chosen(t, (k + 1) \div 2).name[1]]
\* the chosen override dicts applied in ablation order: a key has the value
\* of the last ablation that sets it
AppliedInOrder(t) ==
    LET Sets(k) == {i \in DOMAIN ablation_list : k \in DOMAIN Chosen(t, i).overrides}
        Last(k) == CHOOSE i \in Sets(k) : \A j \in Sets(k) : j <= i
    IN [k \in UNION {DOMAIN Chosen(t, i).overrides : i \in DOMAIN ablation_list} |->
           Chosen(t, Last(k)).overrides[k]]
RECURSIVE SizeProduct(_)
SizeProduct(n) == IF n = 0 THEN 1 ELSE SizeProduct(n - 1) * Len(ablation_list[n].values)

\* C23: the list returned has exactly one combination for every element of
\* the Cartesian product of the value lists, as many as the product of their
\* sizes, each named by the chosen value names joined with '.' and carrying
\* the chosen override dicts applied in ablation order; after the overrides
\* of one combination are changed, the argument and the other combinations
\* are as they were
C23_AllCombinations ==
    pc = "combos_returned" =>
        /\ Len(combo_out) = SizeProduct(Len(ablation_list))
        /\ Len(combo_out) = Cardinality(Cartesian)
        /\ \A t \in Cartesian :
              Cardinality({c \in DOMAIN combo_out :
                              /\ combo_out[c].name = DotJoined(t)
                              /\ combo_out[c].overrides = AppliedInOrder(t)}) = 1
        /\ [c \in DOMAIN combo_out |->
               [name |-> combo_out[c].name, overrides |-> combo_out[c].overrides]]
           = Combos(ablation_list)
        /\ \A i \in DOMAIN ablation_list : \A j \in DOMAIN ablation_list[i].values :
              Deref(combo_heap, InId(i, j)) = ablation_list[i].values[j].overrides
        /\ \A c \in DOMAIN combo_out :
              c # changed => Deref(combo_heap, OutId(c)) = combo_out[c].overrides

\* four combinations of two ablations of two values were returned, a later
\* ablation replacing a key of an earlier one, and a dict inside the
\* overrides of the first combination was changed
C23_ChangedOneOfFour ==
    /\ pc = "combos_returned"
    /\ Len(combo_out) = 4
    /\ changed = 1
    /\ \E i, j \in 1..2 : "m" \in DOMAIN ablation_list[1].values[i].overrides
                             \cap DOMAIN ablation_list[2].values[j].overrides
    /\ Deref(combo_heap, OutId(1)) # combo_out[1].overrides
    /\ \E k \in DOMAIN combo_out[1].overrides :
          /\ IsDict(combo_out[1].overrides[k])
          /\ Deref(combo_heap, OutId(1))[k] # combo_out[1].overrides[k]

\* the tasks other than None the worker has taken
TakenLines == SelectSeq(tasks_taken, LAMBDA t : t # NoTask)

\* C24: after every turn of its loop the worker has put one parse result on
\* the result queue for every task other than None it has taken and has
\* called task_done once for every task taken; it takes None at most once,
\* as its last task, and has then put None on the log queue and terminated
C24_PoisonPillProtocol ==
    /\ Len(result_queue) = Len(TakenLines)
    /\ \A k \in DOMAIN TakenLines : result_queue[k].line = TakenLines[k].line_num
    /\ task_done = Len(tasks_taken)
    /\ \A k \in DOMAIN tasks_taken :
          tasks_taken[k] = NoTask =>
              /\ k = Len(tasks_taken)
              /\ pc = "worker_returned"
              /\ log_queue[Len(log_queue)] = NoTask
    /\ pc # "worker_get" /\ pc # "worker_start" =>
          /\ tasks_taken # <<>>
          /\ tasks_taken[Len(tasks_taken)] = NoTask

====
